---- MODULE Spec2Model ----
(***************************************************************************)
(* A model of the GTFS feed fetcher and importer of the Cyprus bus         *)
(* signage backend (backend/app/services/gtfs.py, routers/gtfs.py,         *)
(* models.py, database.py) and of its live arrival board                   *)
(* (services/arrivals.py, routers/arrivals.py, utils/text.py,              *)
(* utils/timezone.py).                                                     *)
(*                                                                         *)
(* The store is PostgreSQL behind one SQLAlchemy session per request:      *)
(* db is the committed content, tx the content the session's open          *)
(* transaction sees, aborted is PostgreSQL's "current transaction is       *)
(* aborted" state that a failed statement leaves behind.                   *)
(*                                                                         *)
(* Values are strings throughout.  Integers and floats that the code       *)
(* obtains with int() and float() are kept as their canonical Python       *)
(* repr; None is the string None.                                          *)
(***************************************************************************)
EXTENDS Integers, Sequences, FiniteSets, TLC

VARIABLES
    archive,    \* gtfs_dir: city -> id of the archive on disk, or Absent
    db,         \* committed store: table name -> set of rows
    tx,         \* the session's view: db plus the uncommitted statements
    aborted,    \* the open transaction is in PostgreSQL's aborted state
    pc,         \* position of import_gtfs / _import_gtfs_file
    queue,      \* import_gtfs: the cities still to import (head = current)
    bi,         \* the batch loops' index i (0-based row offset)
    stats,      \* _import_gtfs_file: the stats dict being filled
    results,    \* import_gtfs: the results dict
    ierr,       \* exception import_gtfs raised to its caller, or NoError
    iarg,       \* the city argument of the running / last import_gtfs call
    calls,      \* number of import_gtfs calls started
    wlog,       \* history: tables written by the current city, in order
    fkViol,     \* history: statements rejected for a foreign key, <<table, key>>
    durable,    \* history: <<table, key>> of every row a commit made durable
    prev,       \* history: what the previous import_gtfs call left behind
    dpc,        \* position of download_gtfs
    dqueue,     \* download_gtfs: the cities still to download
    dresults,   \* download_gtfs: the results dict
    derr,       \* exception download_gtfs raised to its caller, or NoError
    darg,       \* the city argument of the running / last download_gtfs call
    dcalls,     \* number of download_gtfs calls started
    outcomes,   \* history: city -> what its pass of the current call came to
    spc,        \* position of sync_gtfs
    sstatus,    \* status code of the last sync_gtfs response, 0 before it
    syncs,      \* number of sync_gtfs calls started
    apc,        \* position of get_arrivals
    astop,      \* the stop_id argument of the running / last get_arrivals
    queries,    \* history: what the queries of its session came to
    now,        \* what the calls of get_cyprus_now() of the fetch returned
    page,       \* the items of the page the Motion site served
    fetch,      \* history: what client.get came to
    stop_info,  \* get_arrivals: stop_info
    routes,     \* get_arrivals: routes
    realtime_arrivals,  \* what fetch_realtime_arrivals returned
    response,   \* the response of the last get_arrivals, or None
    upc,        \* position of a call of a utils function
    uarg,       \* the argument of that call
    uref,       \* parse_gtfs_time: reference_date
    uout        \* what the call returned, or Err where it raised

vars == <<archive, db, tx, aborted, pc, queue, bi, stats, results, ierr, iarg,
          calls, wlog, fkViol, durable, prev, dpc, dqueue, dresults, derr,
          darg, dcalls, outcomes, spc, sstatus, syncs, apc, astop, queries,
          now, page, fetch, stop_info, routes, realtime_arrivals, response,
          upc, uarg, uref, uout>>

importVars == <<db, tx, aborted, pc, queue, bi, stats, results, ierr, iarg,
                calls, wlog, fkViol, durable, prev>>

downloadVars == <<dpc, dqueue, dresults, derr, darg, dcalls, outcomes>>

syncVars == <<spc, sstatus, syncs>>

arrivalVars == <<apc, astop, queries, now, page, fetch, stop_info, routes,
                 realtime_arrivals, response>>

utilVars == <<upc, uarg, uref, uout>>

----------------------------------------------------------------------------
(* Bounds *)

NumCities == 2       \* how many of the seven configured cities are modelled
MaxImports == 3      \* import_gtfs calls in one behaviour
MaxDownloads == 2    \* download_gtfs calls in one behaviour
batch_size == 2      \* gtfs.py:304 has 500; scaled down with the fixtures
MaxSyncs == 1        \* sync_gtfs calls in one behaviour

----------------------------------------------------------------------------
(* Python values *)

None == "None"
NoError == "no error"
Absent == "absent"
Err == "<raise>"

\* bool(v) of a str-or-None value.
Truthy(v) == v /= None /\ v /= ""

\* row.get(k) and row.get(k, d) on a csv.DictReader row.
Get(row, k) == IF k \in DOMAIN row THEN row[k] ELSE None
GetD(row, k, d) == IF k \in DOMAIN row THEN row[k] ELSE d

\* Decimal numerals: Decimal[n + 1] is repr(n) and TwoDigits[n + 1] is
\* f"{n:02d}", which is also what strftime gives for %H, %M and %S.
Decimal ==
    <<"0", "1", "2", "3", "4", "5", "6", "7", "8", "9",
      "10", "11", "12", "13", "14", "15", "16", "17", "18", "19",
      "20", "21", "22", "23", "24", "25", "26", "27", "28", "29",
      "30", "31", "32", "33", "34", "35", "36", "37", "38", "39",
      "40", "41", "42", "43", "44", "45", "46", "47", "48", "49",
      "50", "51", "52", "53", "54", "55", "56", "57", "58", "59",
      "60", "61", "62", "63", "64", "65", "66", "67", "68", "69",
      "70", "71", "72", "73", "74", "75", "76", "77", "78", "79",
      "80", "81", "82", "83", "84", "85", "86", "87", "88", "89",
      "90", "91", "92", "93", "94", "95", "96", "97", "98", "99">>

TwoDigits ==
    <<"00", "01", "02", "03", "04", "05", "06", "07", "08", "09",
      "10", "11", "12", "13", "14", "15", "16", "17", "18", "19",
      "20", "21", "22", "23", "24", "25", "26", "27", "28", "29",
      "30", "31", "32", "33", "34", "35", "36", "37", "38", "39",
      "40", "41", "42", "43", "44", "45", "46", "47", "48", "49",
      "50", "51", "52", "53", "54", "55", "56", "57", "58", "59",
      "60", "61", "62", "63", "64", "65", "66", "67", "68", "69",
      "70", "71", "72", "73", "74", "75", "76", "77", "78", "79",
      "80", "81", "82", "83", "84", "85", "86", "87", "88", "89",
      "90", "91", "92", "93", "94", "95", "96", "97", "98", "99">>

IndexOf(seq, x) == CHOOSE i \in DOMAIN seq : seq[i] = x

\* int(s): the literals of the fixtures and the numerals above, each with
\* the repr of its value.  Anything else (text, the empty string, None)
\* raises.
IntLit ==
    [s \in {"0", "1", "2", "3", "4", "20240101", "20241231", "20240501",
            "20240601", "-5"} |-> s]
    @@ (" 1" :> "1")
    @@ [s \in {Decimal[i] : i \in DOMAIN Decimal} |-> s]
    @@ [s \in {TwoDigits[i] : i \in DOMAIN TwoDigits} |->
           Decimal[IndexOf(TwoDigits, s)]]

PyInt(v) == IF v \in DOMAIN IntLit THEN IntLit[v] ELSE Err

\* The number a repr stands for, where the code computes with it.
IntVal ==
    ("-5" :> 0 - 5)
    @@ [s \in {Decimal[i] : i \in DOMAIN Decimal} |-> IndexOf(Decimal, s) - 1]

\* float(s), likewise.
FloatLit ==
    ("34.70" :> "34.7") @@ ("34.7" :> "34.7") @@ ("34.8" :> "34.8")
    @@ ("33.0" :> "33.0") @@ ("33.1" :> "33.1") @@ ("33" :> "33.0")
    @@ ("0" :> "0.0") @@ ("0.0" :> "0.0") @@ ("1.5" :> "1.5")

PyFloat(v) == IF v \in DOMAIN FloatLit THEN FloatLit[v] ELSE Err

\* str(v)
PyStr(v) == v

Min(a, b) == IF a < b THEN a ELSE b

\* max() and min() of a non-empty set of numbers
Max(S) == CHOOSE x \in S : \A y \in S : y <= x
Least(S) == CHOOSE x \in S : \A y \in S : x <= y

----------------------------------------------------------------------------
(* Configuration *)

CityNames == <<"limassol", "pafos", "famagusta", "intercity", "nicosia",
               "larnaca", "pame_express">>

\* CITY_URLS.keys(), in the dict's order, cut to the modelled cities.
CITY_URLS == SubSeq(CityNames, 1, NumCities)

Cities == {CITY_URLS[i] : i \in 1..Len(CITY_URLS)}

\* Values a caller may pass as the city argument: None and "" select every
\* city, "atlantis" is not configured.
CityArgs == Cities \cup {None, "", "atlantis"}

\* import_gtfs treats "" as it treats None: only None is drawn.
ImportArgs == Cities \cup {None, "atlantis"}

Tables == <<"agency", "stops", "routes", "calendar", "calendar_dates",
            "trips", "stop_times", "shapes">>

TableSet == {Tables[i] : i \in 1..Len(Tables)}

Rank(t) == CHOOSE i \in 1..Len(Tables) : Tables[i] = t

----------------------------------------------------------------------------
(* Archives: the inputs.  A csv.DictReader row is a function from the    *)
(* header's column names to strings.                                       *)

AgencyRow(id, name, url, tz, lang) ==
    [agency_id |-> id, agency_name |-> name, agency_url |-> url,
     agency_timezone |-> tz, agency_lang |-> lang]

StopRow(id, code, name, desc, lat, lon, zone) ==
    [stop_id |-> id, stop_code |-> code, stop_name |-> name, stop_desc |-> desc,
     stop_lat |-> lat, stop_lon |-> lon, zone_id |-> zone]

RouteRow(id, ag, short, long, desc, type, color, tcolor) ==
    [route_id |-> id, agency_id |-> ag, route_short_name |-> short,
     route_long_name |-> long, route_desc |-> desc, route_type |-> type,
     route_color |-> color, route_text_color |-> tcolor]

CalendarRow(id, wk, we, sd, ed) ==
    [service_id |-> id, monday |-> wk, tuesday |-> wk, wednesday |-> wk,
     thursday |-> wk, friday |-> wk, saturday |-> we, sunday |-> we,
     start_date |-> sd, end_date |-> ed]

CalendarDateRow(id, date, ex) ==
    [service_id |-> id, date |-> date, exception_type |-> ex]

TripRow(id, route, service, headsign, dir, shape) ==
    [trip_id |-> id, route_id |-> route, service_id |-> service,
     trip_headsign |-> headsign, direction_id |-> dir, shape_id |-> shape,
     wheelchair_accessible |-> "1", bikes_allowed |-> ""]

StopTimeRow(trip, time, stop, seq) ==
    [trip_id |-> trip, arrival_time |-> time, departure_time |-> time,
     stop_id |-> stop, stop_sequence |-> seq, stop_headsign |-> "",
     pickup_type |-> "0", drop_off_type |-> "", shape_dist_traveled |-> "1.5",
     timepoint |-> "1"]

ShapeRow(id, lat, lon, seq) ==
    [shape_id |-> id, shape_pt_lat |-> lat, shape_pt_lon |-> lon,
     shape_pt_sequence |-> seq, shape_dist_traveled |-> ""]

\* A complete, well-formed feed, but for one stop with a coordinate that is
\* no number and one service that only calendar_dates.txt names.
FeedA ==
    ("agency.txt" :> <<AgencyRow("EMEL", "EMEL", "http://emel.cy", "Europe/Nicosia", "el")>>)
    @@ ("stops.txt" :> <<StopRow("1", "c1", "Old Port", "d1", "34.70", "33.0", "z1"),
                     StopRow("2", "c2", "Marina", "d2", "abc", "33.1", "z1"),
                     StopRow("3", "", "Castle", "", "", "", "")>>)
    @@ ("routes.txt" :> <<RouteRow("R1", "EMEL", "30", "Port - Center", "rd", "3", "FF0000", "FFFFFF")>>)
    @@ ("calendar.txt" :> <<CalendarRow("WK", "1", "0", "20240101", "20241231")>>)
    @@ ("calendar_dates.txt" :> <<CalendarDateRow("WK", "20240501", "2"),
                              CalendarDateRow("HOL", "20240501", "1")>>)
    @@ ("trips.txt" :> <<TripRow("T1", "R1", "WK", "Center", "0", "SH1")>>)
    @@ ("stop_times.txt" :> <<StopTimeRow("T1", "08:00:00", "1", "1"),
                          StopTimeRow("T1", "08:10:00", "3", "2"),
                          StopTimeRow("T1", "25:30:00", "1", "3")>>)
    @@ ("shapes.txt" :> <<ShapeRow("SH1", "34.7", "33.0", "1"),
                      ShapeRow("SH1", "34.8", "33.1", "2"),
                      ShapeRow("SH1", "34.8", "33", "03")>>)

\* The same identities as FeedA with every other field changed.
FeedB ==
    ("agency.txt" :> <<AgencyRow("EMEL", "Emel Ltd", "http://emel.example", "UTC", "en"),
                       AgencyRow("EMEL2", "Emel Two", "http://emel.example", "UTC", "en")>>)
    @@ ("stops.txt" :> <<StopRow("1", "x1", "New Port", "x", "34.8", "33.1", "z2")>>)
    @@ ("routes.txt" :> <<RouteRow("R1", "EMEL2", "30A", "Port - Mall", "x", "0", "00FF00", "000000"),
                       RouteRow("R2", "EMEL", "31", "Mall - Port", "", "tram", "", "")>>)
    @@ ("calendar.txt" :> <<CalendarRow("WK", "0", "1", "20240601", "20240601"),
                        CalendarRow("HOL", "1", "1", "20240101", "20241231")>>)
    @@ ("trips.txt" :> <<TripRow("T1", "R2", "HOL", "Mall", "1", "")>>)

\* Shapes with a latitude that is no number in the fourth row, and a
\* routes.txt whose bytes are no UTF-8 (the row is what a decoder that
\* replaces the bad bytes would read).
FeedS ==
    ("stops.txt" :> <<StopRow("9", "c9", "Mall", "d9", "0", "", "z9")>>)
    @@ ("routes.txt" :> <<RouteRow("R9", "??", "9", "Mall ??", "", "3", "", "")>>)
    @@ ("shapes.txt" :> <<ShapeRow("SH2", "34.7", "33.0", "1"),
                      ShapeRow("SH2", "34.7", "33.0", "2"),
                      ShapeRow("SH2", "34.8", "33.1", "3"),
                      ShapeRow("SH2", "abc", "33.0", "4"),
                      ShapeRow("SH2", "34.7", "33.0", "2")>>)

\* calendar_dates.txt with a row whose service_id is empty.
FeedE ==
    ("calendar.txt" :> <<CalendarRow("SAT", "0", "1", "20240101", "20241231")>>)
    @@ ("calendar_dates.txt" :> <<CalendarDateRow("SAT", "20240601", "2"),
                              CalendarDateRow("", "20240601", "1")>>)
    @@ ("shapes.txt" :> <<ShapeRow("SH3", "34.7", "33.0", "1")>>)

\* What can lie on disk as <city>.zip.  "Z" is a file that is no ZIP archive
\* (zipfile.ZipFile raises BadZipFile on it).
ArchiveIds == {"A", "B", "S", "E", "Z"}

IsZip(a) == a /= "Z"

\* The members of an archive on which content.decode('utf-8-sig') raises
\* UnicodeDecodeError.
Undecodable(a) == IF a = "S" THEN {"routes.txt"} ELSE {}

Files(a) ==
    CASE a = "A" -> FeedA
      [] a = "B" -> FeedB
      [] a = "S" -> FeedS
      [] a = "E" -> FeedE

----------------------------------------------------------------------------
(* The store: the schema of models.py and PostgreSQL's statement semantics *)

EmptyStore == [t \in TableSet |-> {}]

\* primary_key=True columns
PK(t) ==
    CASE t = "agency" -> <<"agency_id">>
      [] t = "stops" -> <<"stop_id">>
      [] t = "routes" -> <<"route_id">>
      [] t = "calendar" -> <<"service_id">>
      [] t = "calendar_dates" -> <<"service_id", "date">>
      [] t = "trips" -> <<"trip_id">>
      [] t = "stop_times" -> <<"trip_id", "stop_sequence">>
      [] t = "shapes" -> <<"shape_id", "shape_pt_sequence">>

KeyOf(t, r) == [i \in 1..Len(PK(t)) |-> r[PK(t)[i]]]

\* ForeignKey(...) columns: <<column, referenced table, referenced column>>
FK(t) ==
    CASE t = "routes" -> {<<"agency_id", "agency", "agency_id">>}
      [] t = "calendar_dates" -> {<<"service_id", "calendar", "service_id">>}
      [] t = "trips" -> {<<"service_id", "calendar", "service_id">>}
      [] t = "stop_times" -> {<<"trip_id", "trips", "trip_id">>,
                              <<"stop_id", "stops", "stop_id">>}
      [] OTHER -> {}

\* A NULL reference is not checked.
FKOk(view, t, r) ==
    \A fk \in FK(t) :
        r[fk[1]] = None \/ \E q \in view[fk[2]] : q[fk[3]] = r[fk[1]]

\* A session with its open transaction, as db.execute and db.commit see it.
\*   db, tx, aborted: as the variables
\*   exc: the exception the last statement raised
\*   log: the tables statements were issued for, consecutive repeats folded
\*   fk:  the foreign-key rejections, <<table, key>>
Session(d, t, a) == [db |-> d, tx |-> t, aborted |-> a, exc |-> NoError,
                     log |-> <<>>, fk |-> {}]

Logged(log, t) ==
    IF Len(log) > 0 /\ log[Len(log)] = t THEN log ELSE Append(log, t)

\* INSERT INTO t VALUES r ON CONFLICT (pk) DO UPDATE SET c = EXCLUDED.c for
\* the columns c of upd; an empty upd is ON CONFLICT DO NOTHING.
InsertOnConflict(s, t, r, upd) ==
    LET s1 == [s EXCEPT !.log = Logged(s.log, t)]
        old == {q \in s.tx[t] : KeyOf(t, q) = KeyOf(t, r)}
        merged(q) == [c \in DOMAIN q |-> IF c \in upd THEN r[c] ELSE q[c]]
        new == IF old = {} THEN r ELSE merged(CHOOSE q \in old : TRUE)
        writes == old = {} \/ upd /= {}
    IN  IF s.aborted
        THEN [s1 EXCEPT !.exc = "InFailedSqlTransaction"]
        ELSE IF ~writes
        THEN s1
        ELSE IF ~FKOk(s.tx, t, new)
        THEN [s1 EXCEPT !.exc = "IntegrityError", !.aborted = TRUE,
                        !.fk = @ \cup {<<t, KeyOf(t, r)>>}]
        ELSE [s1 EXCEPT !.tx = [@ EXCEPT ![t] = (@ \ old) \cup {new}]]

\* The same statement against a table without its primary-key constraint.
InsertPlain(s, t, r, upd) ==
    IF s.aborted \/ ~FKOk(s.tx, t, r)
    THEN InsertOnConflict(s, t, r, upd)
    ELSE [s EXCEPT !.log = Logged(s.log, t), !.tx = [@ EXCEPT ![t] = @ \cup {r}]]

\* db.execute(text(...), params)
Execute(s, t, r, upd) == InsertOnConflict(s, t, r, upd)

\* A commit that leaves the transaction open.
CommitNothing(s) == s

\* db.commit(): COMMIT of an aborted transaction rolls it back.
Commit(s) ==
    IF s.aborted
    THEN [s EXCEPT !.tx = s.db, !.aborted = FALSE]
    ELSE [s EXCEPT !.db = s.tx]

\* db.close() when the request ends: the open transaction is rolled back.
Close(s) == [s EXCEPT !.tx = s.db, !.aborted = FALSE]

----------------------------------------------------------------------------
(* GTFSService._parse_csv_from_zip *)

\* A parser that reads what it can of a member it cannot decode.
ParseCsvFromZipLenient(a, filename) ==
    IF ~IsZip(a) THEN <<>>
    ELSE IF filename \notin DOMAIN Files(a) THEN <<>>
    ELSE Files(a)[filename]

\* A file that is no ZIP archive (BadZipFile) and a member that does not
\* decode (UnicodeDecodeError) are caught by except Exception and give the
\* empty list, as a member missing from the archive does.
ParseCsvFromZip(a, filename) ==
    IF ~IsZip(a) THEN <<>>
    ELSE IF filename \notin DOMAIN Files(a) THEN <<>>
    ELSE IF filename \in Undecodable(a) THEN <<>>
    ELSE Files(a)[filename]

FileOf(t) ==
    CASE t = "agency" -> "agency.txt"
      [] t = "stops" -> "stops.txt"
      [] t = "routes" -> "routes.txt"
      [] t = "calendar" -> "calendar.txt"
      [] t = "calendar_dates" -> "calendar_dates.txt"
      [] t = "trips" -> "trips.txt"
      [] t = "stop_times" -> "stop_times.txt"
      [] t = "shapes" -> "shapes.txt"

----------------------------------------------------------------------------
(* GTFSService._import_gtfs_file: the parameters of each statement.  A     *)
(* field equal to Err stands for the exception its expression raises.      *)

AgencyParams(row) ==
    [agency_id |-> GetD(row, "agency_id", ""),
     agency_name |-> GetD(row, "agency_name", ""),
     agency_url |-> GetD(row, "agency_url", ""),
     agency_timezone |-> GetD(row, "agency_timezone", "Europe/Nicosia"),
     agency_lang |-> GetD(row, "agency_lang", "el")]

StopParams(row) ==
    [stop_id |-> PyStr(GetD(row, "stop_id", "")),
     stop_code |-> Get(row, "stop_code"),
     stop_name |-> GetD(row, "stop_name", ""),
     stop_desc |-> Get(row, "stop_desc"),
     stop_lat |-> IF Truthy(Get(row, "stop_lat"))
                  THEN PyFloat(Get(row, "stop_lat")) ELSE None,
     stop_lon |-> IF Truthy(Get(row, "stop_lon"))
                  THEN PyFloat(Get(row, "stop_lon")) ELSE None,
     zone_id |-> Get(row, "zone_id")]

RouteParams(row) ==
    [route_id |-> PyStr(GetD(row, "route_id", "")),
     agency_id |-> Get(row, "agency_id"),
     route_short_name |-> GetD(row, "route_short_name", ""),
     route_long_name |-> GetD(row, "route_long_name", ""),
     route_desc |-> Get(row, "route_desc"),
     route_type |-> IF PyInt(GetD(row, "route_type", "3")) = Err
                    THEN "3" ELSE PyInt(GetD(row, "route_type", "3")),
     route_color |-> Get(row, "route_color"),
     route_text_color |-> Get(row, "route_text_color")]

CalendarParams(row) ==
    [service_id |-> GetD(row, "service_id", ""),
     monday |-> PyInt(GetD(row, "monday", "0")),
     tuesday |-> PyInt(GetD(row, "tuesday", "0")),
     wednesday |-> PyInt(GetD(row, "wednesday", "0")),
     thursday |-> PyInt(GetD(row, "thursday", "0")),
     friday |-> PyInt(GetD(row, "friday", "0")),
     saturday |-> PyInt(GetD(row, "saturday", "0")),
     sunday |-> PyInt(GetD(row, "sunday", "0")),
     start_date |-> PyInt(GetD(row, "start_date", "0")),
     end_date |-> PyInt(GetD(row, "end_date", "0"))]

\* The placeholder Calendar row for a service only calendar_dates.txt names.
DummyCalendar(service_id) ==
    [service_id |-> service_id,
     monday |-> "0", tuesday |-> "0", wednesday |-> "0", thursday |-> "0",
     friday |-> "0", saturday |-> "0", sunday |-> "0",
     start_date |-> "20200101", end_date |-> "20991231"]

CalendarDateParams(row) ==
    [service_id |-> GetD(row, "service_id", ""),
     date |-> PyInt(GetD(row, "date", "0")),
     exception_type |-> PyInt(GetD(row, "exception_type", "1"))]

TripParams(row) ==
    [trip_id |-> PyStr(GetD(row, "trip_id", "")),
     route_id |-> PyStr(GetD(row, "route_id", "")),
     service_id |-> GetD(row, "service_id", ""),
     trip_headsign |-> GetD(row, "trip_headsign", ""),
     direction_id |-> IF Truthy(Get(row, "direction_id"))
                      THEN PyInt(GetD(row, "direction_id", "0")) ELSE None,
     shape_id |-> Get(row, "shape_id"),
     wheelchair_accessible |-> IF Truthy(Get(row, "wheelchair_accessible"))
                      THEN PyInt(GetD(row, "wheelchair_accessible", "0")) ELSE "0",
     bikes_allowed |-> IF Truthy(Get(row, "bikes_allowed"))
                      THEN PyInt(GetD(row, "bikes_allowed", "0")) ELSE "0"]

StopTimeParams(row) ==
    [trip_id |-> PyStr(GetD(row, "trip_id", "")),
     arrival_time |-> GetD(row, "arrival_time", ""),
     departure_time |-> GetD(row, "departure_time", ""),
     stop_id |-> PyStr(GetD(row, "stop_id", "")),
     stop_sequence |-> PyInt(GetD(row, "stop_sequence", "0")),
     stop_headsign |-> Get(row, "stop_headsign"),
     pickup_type |-> IF Truthy(Get(row, "pickup_type"))
                     THEN PyInt(GetD(row, "pickup_type", "0")) ELSE "0",
     drop_off_type |-> IF Truthy(Get(row, "drop_off_type"))
                       THEN PyInt(GetD(row, "drop_off_type", "0")) ELSE "0",
     shape_dist_traveled |-> IF Truthy(Get(row, "shape_dist_traveled"))
                       THEN PyFloat(GetD(row, "shape_dist_traveled", "0")) ELSE None,
     timepoint |-> IF Truthy(Get(row, "timepoint"))
                   THEN PyInt(GetD(row, "timepoint", "1")) ELSE "1"]

ShapeParams(row) ==
    [shape_id |-> GetD(row, "shape_id", ""),
     shape_pt_lat |-> PyFloat(GetD(row, "shape_pt_lat", "0")),
     shape_pt_lon |-> PyFloat(GetD(row, "shape_pt_lon", "0")),
     shape_pt_sequence |-> PyInt(GetD(row, "shape_pt_sequence", "0")),
     shape_dist_traveled |-> IF Truthy(Get(row, "shape_dist_traveled"))
                       THEN PyFloat(GetD(row, "shape_dist_traveled", "0")) ELSE None]

Params(t, row) ==
    CASE t = "agency" -> AgencyParams(row)
      [] t = "stops" -> StopParams(row)
      [] t = "routes" -> RouteParams(row)
      [] t = "calendar" -> CalendarParams(row)
      [] t = "calendar_dates" -> CalendarDateParams(row)
      [] t = "trips" -> TripParams(row)
      [] t = "stop_times" -> StopTimeParams(row)
      [] t = "shapes" -> ShapeParams(row)

Raises(p) == \E c \in DOMAIN p : p[c] = Err

\* The tables whose loop catches (ValueError, TypeError) and continues.
SkipsBadRow(t) == t = "stops"

\* SET lists that overwrite more than the statements do.
AgencyOnConflictOverwrite == {"agency_name", "agency_url", "agency_timezone"}
StopsOnConflictAll ==
    {"stop_code", "stop_name", "stop_desc", "stop_lat", "stop_lon", "zone_id"}

\* The SET list of each statement's ON CONFLICT clause.
AgencyOnConflict == {}
StopsOnConflict == {"stop_name", "stop_lat", "stop_lon"}
RoutesOnConflict == {"route_short_name", "route_long_name", "route_type"}
CalendarOnConflict == {}
CalendarDatesOnConflict == {}
TripsOnConflict == {"route_id", "service_id"}
StopTimesOnConflict == {}
ShapesOnConflict == {}

OnConflict(t) ==
    CASE t = "agency" -> AgencyOnConflict
      [] t = "stops" -> StopsOnConflict
      [] t = "routes" -> RoutesOnConflict
      [] t = "calendar" -> CalendarOnConflict
      [] t = "calendar_dates" -> CalendarDatesOnConflict
      [] t = "trips" -> TripsOnConflict
      [] t = "stop_times" -> StopTimesOnConflict
      [] t = "shapes" -> ShapesOnConflict

\* for row in rows: <params>; self.db.execute(...)
\* The first exception ends the loop with s.exc set.
RECURSIVE ForEachRow(_, _, _)
ForEachRow(s, t, rows) ==
    IF rows = <<>> THEN s
    ELSE LET p == Params(t, Head(rows))
         IN  IF Raises(p)
             THEN IF SkipsBadRow(t)
                  THEN ForEachRow(s, t, Tail(rows))
                  ELSE [s EXCEPT !.exc = "ValueError"]
             ELSE LET s2 == Execute(s, t, p, OnConflict(t))
                  IN  IF s2.exc /= NoError THEN s2
                      ELSE ForEachRow(s2, t, Tail(rows))

\* service_ids = set(row.get('service_id', '') for row in rows
\*                   if row.get('service_id'))
ServiceIds(rows) ==
    {GetD(rows[i], "service_id", "") :
        i \in {j \in 1..Len(rows) : Truthy(Get(rows[j], "service_id"))}}

\* for service_id in service_ids: INSERT the placeholder, ON CONFLICT DO NOTHING
RECURSIVE ForEachServiceId(_, _)
ForEachServiceId(s, ids) ==
    IF ids = {} THEN s
    ELSE LET id == CHOOSE x \in ids : TRUE
             s2 == Execute(s, "calendar", DummyCalendar(id), CalendarOnConflict)
         IN  IF s2.exc /= NoError THEN s2
             ELSE ForEachServiceId(s2, ids \ {id})

\* The body of one table's section up to its commit.
RunCalendarDatesSynthLast(s, rows) ==
    LET s1 == ForEachRow(s, "calendar_dates", rows)
    IN  IF s1.exc /= NoError THEN s1 ELSE ForEachServiceId(s1, ServiceIds(rows))

RunCalendarDates(s, rows) ==
    LET s1 == ForEachServiceId(s, ServiceIds(rows))
    IN  IF s1.exc /= NoError THEN s1 ELSE ForEachRow(s1, "calendar_dates", rows)

RunTable(s, t, rows) ==
    IF t = "calendar_dates" THEN RunCalendarDates(s, rows)
    ELSE ForEachRow(s, t, rows)

----------------------------------------------------------------------------
(* GTFSService.import_gtfs and _import_gtfs_file as a process *)

EmptyStats == [t \in {} |-> 0]
NoResults == [c \in {} |-> 0]

\* results[city_name] = {'success': True, 'stats': stats}
Success(st) == [success |-> TRUE, error |-> None, stats |-> st]
\* results[city_name] = {'success': False, 'error': str(e)}
Failure(e) == [success |-> FALSE, error |-> e, stats |-> EmptyStats]

Put(f, k, v) == [x \in DOMAIN f \cup {k} |-> IF x = k THEN v ELSE f[x]]

RECURSIVE JoinLog(_, _)
JoinLog(a, b) == IF b = <<>> THEN a ELSE JoinLog(Logged(a, Head(b)), Tail(b))

AllKeys(view) == UNION {{<<t, KeyOf(t, r)>> : r \in view[t]} : t \in TableSet}

Exists(c) == c \in Cities /\ archive[c] /= Absent

\* The cities import_gtfs(city) goes through, in order.
RECURSIVE Existing(_)
Existing(names) ==
    IF names = <<>> THEN <<>>
    ELSE IF Exists(Head(names)) THEN <<Head(names)>> \o Existing(Tail(names))
    ELSE Existing(Tail(names))

ImportList(city) == IF Truthy(city) THEN <<city>> ELSE Existing(CITY_URLS)

\* The order of the sections of _import_gtfs_file.
NextTableTripsLate(t) ==
    CASE t = "calendar_dates" -> "stop_times"
      [] t = "stop_times" -> "trips"
      [] t = "trips" -> "shapes"
      [] t = "shapes" -> "return"
      [] OTHER -> Tables[Rank(t) + 1]

NextTable(t) == IF Rank(t) < Len(Tables) THEN Tables[Rank(t) + 1] ELSE "return"

City == Head(queue)
Rows(t) == ParseCsvFromZip(archive[City], FileOf(t))
AfterCity == IF Tail(queue) = <<>> THEN "indexes" ELSE "agency"

History(s, t, committed) ==
    /\ wlog' = IF pc = "agency" THEN s.log ELSE JoinLog(wlog, s.log)
    /\ fkViol' = fkViol \cup s.fk
    /\ durable' = IF committed /\ ~s.aborted THEN durable \cup AllKeys(s.tx)
                  ELSE durable

\* if city: ... if not zip_path.exists(): raise FileNotFoundError
NotFoundAnyMode(city) == ~Exists(city)
NotFound(city) == Truthy(city) /\ ~Exists(city)

\* import_gtfs, lines 101-113
ImportBegin(city) ==
    /\ calls' = calls + 1
    /\ iarg' = city
    /\ results' = NoResults
    /\ stats' = EmptyStats
    /\ bi' = 0
    /\ IF NotFound(city)
       THEN /\ ierr' = "FileNotFoundError"
            /\ UNCHANGED <<pc, queue>>
       ELSE /\ ierr' = NoError
            /\ queue' = ImportList(city)
            /\ pc' = IF ImportList(city) = <<>> THEN "indexes" ELSE "agency"
    /\ UNCHANGED <<db, tx, aborted, wlog, fkViol, durable, prev>>

\* POST /gtfs/import
ImportStart(city) ==
    /\ pc = "idle" /\ dpc = "idle" /\ spc = "idle" /\ calls < MaxImports
    /\ ImportBegin(city)
    /\ UNCHANGED archive
    /\ UNCHANGED <<downloadVars, syncVars, arrivalVars, utilVars>>

\* except Exception as e: results[city_name] = {'success': False, ...}
CityFails(s) ==
    /\ results' = Put(results, City, Failure(s.exc))
    /\ queue' = Tail(queue)
    /\ pc' = AfterCity
    /\ stats' = EmptyStats
    /\ bi' = 0
    /\ db' = s.db /\ tx' = s.tx /\ aborted' = s.aborted

\* return stats; results[city_name] = {'success': True, 'stats': stats}
CityReturns(st) ==
    /\ results' = Put(results, City, Success(st))
    /\ queue' = Tail(queue)
    /\ pc' = AfterCity
    /\ stats' = EmptyStats

\* A count of the rows that the statements of the section wrote.
StatOfWritten(before, after, t, rows) ==
    Cardinality(after[t] \ before[t])
\* stats[<table>] = len(rows), whatever the statements did to the view
StatOf(before, after, t, rows) == Len(rows)

\* One of the sections agency .. trips: parse, the row loop, stats, commit.
ImportTable(t) ==
    /\ pc = t
    /\ LET s1 == RunTable(Session(db, tx, aborted), t, Rows(t))
           s2 == Commit(s1)
       IN  /\ History(s1, t, s1.exc = NoError)
           /\ IF s1.exc /= NoError
              THEN CityFails(s1)
              ELSE /\ db' = s2.db /\ tx' = s2.tx /\ aborted' = s2.aborted
                   /\ stats' = Put(stats, t, StatOf(tx, s1.tx, t, Rows(t)))
                   /\ pc' = NextTable(t)
                   /\ bi' = 0
                   /\ UNCHANGED <<queue, results>>
    /\ UNCHANGED <<archive, ierr, iarg, calls, prev>>
    /\ UNCHANGED <<downloadVars, syncVars, arrivalVars, utilVars>>

\* One pass of for i in range(0, len(rows), batch_size) of the sections
\* stop_times and shapes, with what follows the loop after its last pass.
ImportBatch(t) ==
    /\ pc = t
    /\ LET rows == Rows(t)
           batch == SubSeq(rows, bi + 1, Min(bi + batch_size, Len(rows)))
           s1 == ForEachRow(Session(db, tx, aborted), t, batch)
           s2 == IF rows = <<>> THEN s1 ELSE Commit(s1)
           last == bi + batch_size >= Len(rows)
           st == Put(stats, t, StatOf(tx, s1.tx, t, rows))
       IN  /\ History(s1, t, s1.exc = NoError /\ rows /= <<>>)
           /\ IF s1.exc /= NoError
              THEN CityFails(s1)
              ELSE /\ db' = s2.db /\ tx' = s2.tx /\ aborted' = s2.aborted
                   /\ IF ~last
                      THEN /\ bi' = bi + batch_size
                           /\ UNCHANGED <<pc, stats, queue, results>>
                      ELSE /\ bi' = 0
                           /\ IF NextTable(t) = "return"
                              THEN CityReturns(st)
                              ELSE /\ pc' = NextTable(t)
                                   /\ stats' = st
                                   /\ UNCHANGED <<queue, results>>
    /\ UNCHANGED <<archive, ierr, iarg, calls, prev>>
    /\ UNCHANGED <<downloadVars, syncVars, arrivalVars, utilVars>>

ImportAgency == ImportTable("agency")
ImportStops == ImportTable("stops")
ImportRoutes == ImportTable("routes")
ImportCalendar == ImportTable("calendar")
ImportCalendarDates == ImportTable("calendar_dates")
ImportTrips == ImportTable("trips")
ImportStopTimes == ImportBatch("stop_times")
ImportShapes == ImportBatch("shapes")

\* _add_indexes: eight times try: execute(CREATE INDEX IF NOT EXISTS);
\* commit() except: pass.  In an aborted transaction every execute raises
\* and no commit is reached.
AddIndexes(s) == IF s.aborted THEN s ELSE Commit(s)

Summary(view) ==
    [cities |-> ImportList(iarg),
     agency |-> Cardinality(view["agency"]),
     calendar |-> Cardinality(view["calendar"])]

\* import_gtfs, lines 124-127, and the end of the request (get_db closes
\* the session).
ImportReturn ==
    /\ pc = "indexes"
    /\ LET s1 == AddIndexes(Session(db, tx, aborted))
           s2 == Close(s1)
       IN  /\ db' = s2.db /\ tx' = s2.tx /\ aborted' = s2.aborted
           /\ durable' = IF ~aborted THEN durable \cup AllKeys(tx) ELSE durable
           /\ prev' = Append(prev, Summary(s2.db))
    /\ pc' = "idle"
    /\ UNCHANGED <<archive, queue, bi, stats, results, ierr, iarg, calls, wlog,
                   fkViol>>
    /\ UNCHANGED <<downloadVars, syncVars, arrivalVars, utilVars>>

----------------------------------------------------------------------------
(* GTFSService.download_gtfs *)

\* What one client.get and the write of its body can come to.
Outcomes == {"timeout", "http404", "open_error", "write_error", "ok"}

\* The bodies the remote side serves.
Bodies == {"A", "Z"}

\* if city not in CITY_URLS
UnknownCityUnchecked(city) == FALSE
UnknownCity(city) == city \notin Cities

DownloadList(city) == IF Truthy(city) THEN <<city>> ELSE CITY_URLS

\* download_gtfs, lines 46-55
DownloadBegin(city) ==
    /\ dcalls' = dcalls + 1
    /\ darg' = city
    /\ dresults' = NoResults
    /\ outcomes' = NoResults
    /\ IF Truthy(city) /\ UnknownCity(city)
       THEN /\ derr' = "ValueError"
            /\ UNCHANGED <<dpc, dqueue>>
       ELSE /\ derr' = NoError
            /\ dqueue' = DownloadList(city)
            /\ dpc' = "get"
    /\ UNCHANGED archive

\* POST /gtfs/download
DownloadStart(city) ==
    /\ pc = "idle" /\ dpc = "idle" /\ spc = "idle" /\ dcalls < MaxDownloads
    /\ DownloadBegin(city)
    /\ UNCHANGED <<importVars, syncVars, arrivalVars, utilVars>>

DownloadOk(file) == [success |-> TRUE, error |-> None, file |-> file]
DownloadFailed(e) == [success |-> FALSE, error |-> e, file |-> None]

\* The record one pass of the loop leaves for its city.
RecordOf(city_name, outcome) ==
    CASE outcome = "ok" -> DownloadOk(city_name)
      [] outcome = "http404" -> DownloadFailed("HTTP 404")
      [] outcome = "timeout" -> DownloadFailed("ReadTimeout")
      [] outcome \in {"open_error", "write_error"} -> DownloadFailed("OSError")

\* The archive file one pass of the loop leaves for its city: written in
\* full, left alone, or truncated by open(zip_path, 'wb') and not filled.
FileAfter(old, outcome, body) ==
    CASE outcome = "ok" -> body
      [] outcome = "write_error" -> "Z"
      [] OTHER -> old

\* A pass that lets its exception escape the loop.
LoopAfterRaising(outcome) == IF outcome = "ok" THEN "continue" ELSE "raise"
\* try: ... except Exception as e: the loop goes on whatever happened.
LoopAfter(outcome) == "continue"

\* The cities the current call issued a GET for, and those whose archive
\* file it opened for writing.
Requested == DOMAIN outcomes
Written == {c \in DOMAIN outcomes : outcomes[c] \in {"ok", "write_error"}}

\* routers/gtfs.py download_gtfs: the status of the response.
DownloadStatus ==
    IF derr = NoError THEN 200 ELSE IF derr = "ValueError" THEN 400 ELSE 500

\* One pass of for city_name, url in cities.items(), lines 56-87, with the
\* return after the last pass.
DownloadCity(outcome, body) ==
    /\ dpc = "get"
    /\ LET city_name == Head(dqueue)
       IN  /\ outcomes' = Put(outcomes, city_name, outcome)
           /\ archive' = [archive EXCEPT
                             ![city_name] = FileAfter(@, outcome, body)]
           /\ IF LoopAfter(outcome) = "raise"
              THEN /\ derr' = "Exception"
                   /\ dpc' = "idle"
                   /\ UNCHANGED <<dresults, dqueue>>
              ELSE /\ dresults' = Put(dresults, city_name,
                                      RecordOf(city_name, outcome))
                   /\ dqueue' = Tail(dqueue)
                   /\ dpc' = IF Tail(dqueue) = <<>> THEN "idle" ELSE "get"
                   /\ UNCHANGED derr
    /\ UNCHANGED <<darg, dcalls>>
    /\ UNCHANGED <<importVars, syncVars, arrivalVars, utilVars>>

----------------------------------------------------------------------------
(* Specifications *)

InitImport ==
    /\ db = EmptyStore /\ tx = EmptyStore /\ aborted = FALSE
    /\ pc = "idle" /\ queue = <<>> /\ bi = 0
    /\ stats = EmptyStats /\ results = NoResults
    /\ ierr = NoError /\ iarg = None /\ calls = 0
    /\ wlog = <<>> /\ fkViol = {} /\ durable = {} /\ prev = <<>>

InitDownload ==
    /\ dpc = "idle" /\ dqueue = <<>> /\ dresults = NoResults
    /\ derr = NoError /\ darg = None /\ dcalls = 0
    /\ outcomes = NoResults

InitSync == spc = "idle" /\ sstatus = 0 /\ syncs = 0

\* get_arrivals has not been called.
NoStopInfo ==
    [stop_id |-> None, stop_name |-> None, stop_lat |-> None,
     stop_lon |-> None]
NoResponse ==
    [status |-> 0, stop_info |-> NoStopInfo, arrivals |-> <<>>,
     routes |-> <<>>]

InitArrivals ==
    /\ apc = "idle" /\ astop = None /\ page = <<>>
    /\ queries = <<>> /\ now = <<>>
    /\ fetch = None /\ stop_info = NoStopInfo /\ routes = <<>>
    /\ realtime_arrivals = <<>> /\ response = NoResponse

\* No utils function has been called.
NoResult == [raised |-> FALSE, value |-> <<>>]

InitUtil ==
    /\ upc = "idle" /\ uarg = <<>> /\ uref = [d |-> 0, s |-> 0, us |-> 0]
    /\ uout = NoResult

\* The importer over whatever earlier downloads left in gtfs_dir.
Init ==
    /\ archive \in [Cities -> ArchiveIds \cup {Absent}]
    /\ InitImport
    /\ InitDownload
    /\ InitSync
    /\ InitUtil
    /\ InitArrivals

Import ==
    \/ \E city \in ImportArgs : ImportStart(city)
    \/ ImportAgency
    \/ ImportStops
    \/ ImportRoutes
    \/ ImportCalendar
    \/ ImportCalendarDates
    \/ ImportTrips
    \/ ImportStopTimes
    \/ ImportShapes
    \/ ImportReturn

Next == Import

Spec == Init /\ [][Next]_vars

\* The fetcher over a gtfs_dir that holds a valid archive, a broken one or
\* none for each city.
InitD ==
    /\ archive \in [Cities -> Bodies \cup {Absent}]
    /\ InitImport
    /\ InitDownload
    /\ InitSync
    /\ InitUtil
    /\ InitArrivals

NextD ==
    \/ \E city \in CityArgs : DownloadStart(city)
    \/ \E outcome \in Outcomes \ {"ok"} : DownloadCity(outcome, "Z")
    \/ \E body \in Bodies : DownloadCity("ok", body)

SpecDownload == InitD /\ [][NextD]_vars

----------------------------------------------------------------------------
(* routers/gtfs.py sync_gtfs *)

\* A count of every record, successful or not.
DownloadedAll(download_results) == Cardinality(DOMAIN download_results)
\* downloaded = sum(1 for v in download_results.values() if v.get('success'))
Downloaded(download_results) ==
    Cardinality({c \in DOMAIN download_results : download_results[c].success})

\* sync_gtfs, lines 95-99: the call of download_gtfs.  The ValueError of an
\* unknown city is caught by except Exception and answered with 500.
SyncStart(city) ==
    /\ spc = "idle" /\ pc = "idle" /\ dpc = "idle" /\ syncs < MaxSyncs
    /\ syncs' = syncs + 1
    /\ DownloadBegin(city)
    /\ IF Truthy(city) /\ UnknownCity(city)
       THEN spc' = "idle" /\ sstatus' = 500
       ELSE spc' = "download" /\ sstatus' = 0
    /\ UNCHANGED <<importVars, arrivalVars, utilVars>>

\* sync_gtfs, lines 100-106: download_gtfs has returned; raise
\* HTTPException(500) if nothing was downloaded, else call import_gtfs.
SyncImport ==
    /\ spc = "download" /\ dpc = "idle"
    /\ IF Downloaded(dresults) = 0
       THEN /\ spc' = "idle" /\ sstatus' = 500
            /\ UNCHANGED importVars
       ELSE /\ ImportBegin(darg)
            /\ IF NotFound(darg)
               THEN spc' = "idle" /\ sstatus' = 500
               ELSE spc' = "import" /\ sstatus' = 0
    /\ UNCHANGED <<archive, syncs>>
    /\ UNCHANGED <<downloadVars, arrivalVars, utilVars>>

\* sync_gtfs, lines 107-115: import_gtfs has returned.
SyncReturn ==
    /\ spc = "import" /\ pc = "idle"
    /\ spc' = "idle" /\ sstatus' = 200
    /\ UNCHANGED <<archive, syncs>>
    /\ UNCHANGED <<importVars, downloadVars, arrivalVars, utilVars>>

InitS ==
    /\ archive \in [Cities -> Bodies \cup {"B", Absent}]
    /\ InitImport
    /\ InitDownload
    /\ InitSync
    /\ InitUtil
    /\ InitArrivals

NextS ==
    \/ \E city \in CityArgs : SyncStart(city)
    \/ \E outcome \in Outcomes \ {"ok"} : DownloadCity(outcome, "Z")
    \/ \E body \in Bodies : DownloadCity("ok", body)
    \/ SyncImport
    \/ ImportAgency
    \/ ImportStops
    \/ ImportRoutes
    \/ ImportCalendar
    \/ ImportCalendarDates
    \/ ImportTrips
    \/ ImportStopTimes
    \/ ImportShapes
    \/ ImportReturn
    \/ SyncReturn

SpecSync == InitS /\ [][NextS]_vars

----------------------------------------------------------------------------
(* Properties of the importer, specification Spec *)

Zips == {a \in ArchiveIds : IsZip(a)}
RowsOf(a, t) == ParseCsvFromZip(a, FileOf(t))
RowSet(a, t) == {RowsOf(a, t)[i] : i \in 1..Len(RowsOf(a, t))}

\* C1: within one city's import the tables are written in the order agency,
\* stops, routes, calendar, calendar_dates, trips, stop_times, shapes; the
\* placeholder Calendar rows are calendar writes that precede every
\* calendar_dates write.  wlog folds consecutive writes to one table, so the
\* order holds exactly when wlog is strictly increasing in table rank.
C1_TableOrder ==
    \A i \in 1..(Len(wlog) - 1) : Rank(wlog[i]) < Rank(wlog[i + 1])

\* A city wrote to all eight tables and returned its stats.
C1_Witness ==
    /\ wlog = Tables
    /\ \E c \in DOMAIN results : results[c].success

\* C2: importing one archive twice in a row leaves agency and calendar with
\* the row counts the first import left, whatever the store held before,
\* and no table holds two rows with one primary key.
C2_Idempotent ==
    /\ \A t \in TableSet : \A r1, r2 \in db[t] :
           KeyOf(t, r1) = KeyOf(t, r2) => r1 = r2
    /\ \A t \in TableSet : \A r1, r2 \in tx[t] :
           KeyOf(t, r1) = KeyOf(t, r2) => r1 = r2
    /\ \A i \in 1..(Len(prev) - 1) :
           (Len(prev[i].cities) = 1 /\ prev[i + 1].cities = prev[i].cities)
           => /\ prev[i + 1].agency = prev[i].agency
              /\ prev[i + 1].calendar = prev[i].calendar

\* A third call repeated the second on one city, over a store the first call
\* had filled, and the city's archive has agency and calendar rows.
C2_Witness ==
    /\ Len(prev) = 3
    /\ prev[1].agency > 0 /\ prev[1].cities /= prev[2].cities
    /\ Len(prev[2].cities) = 1 /\ prev[3].cities = prev[2].cities
    /\ prev[2].agency > prev[1].agency
    /\ RowSet(archive[prev[2].cities[1]], "calendar") /= {}

\* C3: agency and calendar rows are insert-only: a row of either table that
\* is in the store stays in it with every field as it was, whatever the
\* feeds imported later carry.
C3_InsertOnly ==
    [][/\ db["agency"] \subseteq db'["agency"]
       /\ db["calendar"] \subseteq db'["calendar"]
       /\ (~aborted /\ ~aborted') =>
             /\ tx["agency"] \subseteq tx'["agency"]
             /\ tx["calendar"] \subseteq tx'["calendar"]]_vars

\* A city was imported whose archive carries an agency_id and a service_id
\* that the store holds with other field values.
C3_Witness ==
    /\ pc = "idle"
    /\ \E c \in DOMAIN results :
        /\ results[c].success
        /\ \E row \in RowSet(archive[c], "agency") : \E r \in db["agency"] :
               r.agency_id = row.agency_id /\ r.agency_timezone /= row.agency_timezone
        /\ \E row \in RowSet(archive[c], "calendar") : \E r \in db["calendar"] :
               r.service_id = row.service_id /\ r.monday /= row.monday

SameBut(r, q, cols) == \A c \in DOMAIN r : c \in cols \/ q[c] = r[c]

\* The valid rows of a table's file, each as the statement's parameters.
ValidParams(a, t) ==
    {Params(t, row) : row \in {x \in RowSet(a, t) : ~Raises(Params(t, x))}}

\* C4: on a primary-key conflict a stop keeps its code, description and zone
\* and takes the feed's name, lat and lon; a route keeps its agency_id,
\* description, color and text color and takes the feed's short name, long
\* name and route type.
C4_UpsertFields ==
    [][/\ \A r \in db["stops"] : \E q \in db'["stops"] :
              /\ q.stop_id = r.stop_id
              /\ SameBut(r, q, {"stop_name", "stop_lat", "stop_lon"})
       /\ \A r \in db["routes"] : \E q \in db'["routes"] :
              /\ q.route_id = r.route_id
              /\ SameBut(r, q, {"route_short_name", "route_long_name", "route_type"})
       /\ (pc = "stops" /\ pc' = "routes") =>
              \A p \in ValidParams(archive[City], "stops") :
                  \E q \in db'["stops"] :
                      /\ q.stop_id = p.stop_id /\ q.stop_name = p.stop_name
                      /\ q.stop_lat = p.stop_lat /\ q.stop_lon = p.stop_lon
       /\ (pc = "routes" /\ pc' = "calendar") =>
              \A p \in ValidParams(archive[City], "routes") :
                  \E q \in db'["routes"] :
                      /\ q.route_id = p.route_id
                      /\ q.route_short_name = p.route_short_name
                      /\ q.route_long_name = p.route_long_name
                      /\ q.route_type = p.route_type]_vars

\* The store holds a stop and a route whose overwritten fields are those of
\* an archive that carries other values in the fields that are kept.
C4_Witness ==
    /\ \E a \in Zips : \E p \in ValidParams(a, "stops") : \E q \in db["stops"] :
           /\ q.stop_id = p.stop_id /\ q.stop_name = p.stop_name
           /\ q.stop_lat = p.stop_lat /\ q.stop_lon = p.stop_lon
           /\ q.stop_code /= p.stop_code /\ q.stop_desc /= p.stop_desc
           /\ q.zone_id /= p.zone_id
    /\ \E a \in Zips : \E p \in ValidParams(a, "routes") : \E q \in db["routes"] :
           /\ q.route_id = p.route_id /\ q.route_short_name = p.route_short_name
           /\ q.route_long_name = p.route_long_name /\ q.route_type = p.route_type
           /\ q.agency_id /= p.agency_id /\ q.route_desc /= p.route_desc
           /\ q.route_color /= p.route_color
           /\ q.route_text_color /= p.route_text_color

\* C5: the CalendarDate foreign key is never violated: every calendar_dates
\* INSERT the importer issues finds a Calendar row with its service_id, and
\* once the section is through, each service_id its rows carry has exactly
\* one Calendar row, the placeholder when no feed supplied the service.
C5_CalendarDateFK ==
    /\ \A v \in fkViol : v[1] /= "calendar_dates"
    /\ \A c \in DOMAIN results :
           results[c].success =>
               \A row \in RowSet(archive[c], "calendar_dates") :
                   Cardinality({r \in db["calendar"] :
                       r.service_id = GetD(row, "service_id", "")}) = 1

\* C6: a row whose required number does not parse (stop lat/lon; shape lat,
\* lon, sequence) is skipped alone: no city's import fails for it, and the
\* rows of the same file that do parse are in the store afterwards.
C6_BadRowSkipped ==
    \A c \in DOMAIN results :
        /\ results[c].error /= "ValueError"
        /\ (pc = "idle" /\ archive[c] = "S") =>
               \A p \in ValidParams("S", "shapes") :
                   <<"shapes", KeyOf("shapes", p)>> \in AllKeys(db)

Healthy(a) == a \in {"A", "B"}
Corrupt(a) == ~IsZip(a)

\* The number of rows of every file of the archive.
FullCounts(a) == [t \in TableSet |-> Len(RowsOf(a, t))]

\* C7: import_gtfs in all-cities mode over two archives, one healthy and one
\* corrupt, reports success with the full row counts for the healthy city
\* and failure for the corrupt one.
C7_PartialFailure ==
    (/\ pc = "idle" /\ calls > 0 /\ iarg = None /\ ierr = NoError
     /\ Cardinality({c \in Cities : archive[c] /= Absent}) = 2)
    => \A h, z \in Cities :
           (Healthy(archive[h]) /\ Corrupt(archive[z]))
           => /\ results[h] = Success(FullCounts(archive[h]))
              /\ ~results[z].success

\* A step in which the import of a city ends in failure.
CityFailedStep ==
    \E c \in DOMAIN results' : c \notin DOMAIN results /\ ~results'[c].success

\* C8: committed progress is durable: every row a commit made durable (a
\* table's, or a batch's of stop_times or shapes) is in the store ever
\* after, and the step in which a city's import fails leaves the committed
\* store as it was.
C8_Durable ==
    /\ [](durable \subseteq AllKeys(db))
    /\ [][CityFailedStep => db' = db]_vars

\* The shapes of one city failed in their second batch and a later city of
\* the same call failed too; the first batch and the stops are in the store.
C8_Witness ==
    /\ pc = "idle"
    /\ \E c1, c2 \in DOMAIN results :
        /\ c1 /= c2
        /\ archive[c1] = "S" /\ ~results[c1].success
        /\ archive[c2] = "E" /\ ~results[c2].success
    /\ {<<"shapes", <<"SH2", "1">>>>, <<"shapes", <<"SH2", "2">>>>,
        <<"stops", <<"9">>>>} \subseteq (durable \cap AllKeys(db))

\* C11: import_gtfs raises FileNotFoundError exactly when a city is named
\* and that city has no archive, and that call writes nothing; with no city
\* named it raises nothing and its results have one record for each
\* configured city that has an archive, and for no other.
C11_NotFound ==
    /\ [](calls > 0 =>
            (ierr = "FileNotFoundError"
             <=> (Truthy(iarg)
                  /\ (iarg \notin Cities \/ archive[iarg] = Absent))))
    /\ [][(calls' /= calls /\ ierr' = "FileNotFoundError")
          => (db' = db /\ tx' = tx /\ pc' = "idle" /\ results' = NoResults)]_vars
    /\ []((pc = "idle" /\ calls > 0 /\ ~Truthy(iarg))
          => /\ ierr = NoError
             /\ DOMAIN results = {c \in Cities : archive[c] /= Absent})

\* import_gtfs raised FileNotFoundError for a configured city over a store
\* that an earlier call on another city had filled.
C11_Witness ==
    /\ pc = "idle" /\ ierr = "FileNotFoundError" /\ iarg \in Cities
    /\ db /= EmptyStore /\ results = NoResults
    /\ \E c \in Cities : archive[c] /= Absent

\* The table's file cannot be read from the archive.
Unparseable(a, filename) ==
    \/ ~IsZip(a)
    \/ filename \notin DOMAIN Files(a)
    \/ filename \in Undecodable(a)

\* C13: _parse_csv_from_zip raises nothing: for a file that is missing from
\* the archive, an archive that is no ZIP file and a file that does not
\* decode it returns the empty list, so the section of that table counts 0
\* rows, writes nothing to the table and the import goes on to the next
\* section (after shapes: returns the city's stats).
C13_ParseNeverRaises ==
    [][\A t \in TableSet :
          (pc = t /\ Unparseable(archive[Head(queue)], FileOf(t)))
          => /\ ~CityFailedStep
             /\ db'[t] = db[t]
             /\ IF t = "shapes"
                THEN /\ Head(queue) \in DOMAIN results'
                     /\ results'[Head(queue)].success
                     /\ results'[Head(queue)].stats[t] = 0
                ELSE pc' = Tables[Rank(t) + 1] /\ stats'[t] = 0]_vars

\* The import of an archive whose routes.txt does not decode has gone past
\* routes and is at trips.
C13_Witness ==
    /\ pc = "trips" /\ archive[Head(queue)] = "S"
    /\ "routes.txt" \in Undecodable("S")
    /\ stats["routes"] = 0 /\ stats["stops"] = 1

----------------------------------------------------------------------------
(* Properties of the fetcher, specification SpecDownload *)

\* C9: download_gtfs isolates cities: nothing but the unknown-city error is
\* raised to the caller; every pass leaves a record for its city, failed
\* with an error unless the GET and the write went through; a pass changes
\* no other city's record or archive file; an all-cities call that is
\* through holds one record for every configured city.
C9_Isolation ==
    /\ [](/\ derr \in {NoError, "ValueError"}
          /\ \A c \in DOMAIN outcomes :
                 /\ c \in DOMAIN dresults
                 /\ dresults[c].success = (outcomes[c] = "ok")
                 /\ ~dresults[c].success => dresults[c].error /= None
          /\ (dpc = "idle" /\ dcalls > 0 /\ ~Truthy(darg))
                 => DOMAIN dresults = Cities)
    /\ [][dpc = "get" =>
             \A o \in Cities \ {Head(dqueue)} :
                 /\ archive'[o] = archive[o]
                 /\ o \in DOMAIN dresults =>
                        o \in DOMAIN dresults' /\ dresults'[o] = dresults[o]]_vars

\* An all-cities call is through in which one city failed after another had
\* succeeded and one succeeded after another had failed.
C9_Witness ==
    /\ dpc = "idle" /\ ~Truthy(darg) /\ dcalls = 2
    /\ \E c \in Cities : ~dresults[c].success /\ archive[c] = "A"
    /\ \E c \in Cities : dresults[c].success

\* C10: download_gtfs with a city that is not configured fails (the router
\* answers 400) with no GET issued and no archive file opened.
C10_UnknownCity ==
    (dcalls > 0 /\ Truthy(darg) /\ darg \notin Cities)
    => /\ derr = "ValueError" /\ DownloadStatus = 400
       /\ dpc = "idle"
       /\ Requested = {} /\ Written = {}
       /\ dresults = NoResults

\* The call was made while archives were on disk.
C10_Witness ==
    /\ dcalls = 2 /\ darg = "atlantis" /\ derr = "ValueError"
    /\ \E c \in Cities : archive[c] /= Absent

----------------------------------------------------------------------------
(* Properties of sync_gtfs, specification SpecSync *)

\* C12: sync_gtfs downloads, then imports: import_gtfs is called only after
\* download_gtfs has returned with at least one successful record, no
\* import step runs while the download runs and no download step while the
\* import runs; when no download succeeded the call answers 500 without
\* calling import_gtfs, and no step outside the import changes the store.
C12_SyncOrder ==
    /\ [][calls' /= calls
          => /\ spc = "download" /\ dpc = "idle" /\ derr = NoError
             /\ \E c \in DOMAIN dresults : dresults[c].success]_vars
    /\ [][(spc = "download" /\ dpc = "idle"
           /\ \A c \in DOMAIN dresults : ~dresults[c].success)
          => /\ spc' = "idle" /\ sstatus' = 500
             /\ calls' = calls /\ pc' = "idle"]_vars
    /\ [][(spc /= "import" /\ spc' /= "import")
          => (db' = db /\ tx' = tx)]_vars
    /\ [][spc = "import" => (archive' = archive /\ dresults' = dresults)]_vars

\* A sync of every city was answered with 500 after all its downloads had
\* failed, with an archive of an earlier download on disk and import_gtfs
\* never called.
C12_Witness ==
    /\ spc = "idle" /\ sstatus = 500 /\ derr = NoError
    /\ DOMAIN dresults = Cities
    /\ \A c \in DOMAIN dresults : ~dresults[c].success
    /\ \E c \in Cities : archive[c] = "A"
    /\ calls = 0 /\ db = EmptyStore

----------------------------------------------------------------------------
(* utils/text.py *)

\* A text is a string; Chars gives its characters.  A character is written
\* as itself, or by name when it is outside printable ASCII: "TAB", "NBSP"
\* (U+00A0), and the Greek letters, capital ("Alpha") and small ("alpha").
Chars ==
    ("" :> <<>>)
    @@ ("9" :> <<"9">>)
    @@ ("30" :> <<"3", "0">>)
    @@ ("31" :> <<"3", "1">>)
    @@ ("99" :> <<"9", "9">>)
    @@ ("30A" :> <<"3", "0", "A">>)
    @@ ("30a" :> <<"3", "0", "a">>)
    @@ ("30 a" :> <<"3", "0", " ", "a">>)
    @@ ("30<Alpha>" :> <<"3", "0", "Alpha">>)
    @@ ("3<theta>" :> <<"3", "theta">>)
    @@ ("3TH" :> <<"3", "T", "H">>)

\* _GREEK_TO_LATIN, the entries for the letters above
GREEK_TO_LATIN ==
    ("Alpha" :> <<"A">>) @@ ("Beta" :> <<"B">>) @@ ("Theta" :> <<"T", "H">>)
    @@ ("Rho" :> <<"P">>) @@ ("Psi" :> <<"P", "S">>)

\* str.upper(), character by character
UpperOf ==
    ("a" :> "A") @@ ("b" :> "B") @@ ("alpha" :> "Alpha")
    @@ ("beta" :> "Beta") @@ ("theta" :> "Theta")

\* The characters str.strip() removes: str.isspace()
IsSpace(ch) == ch \in {" ", "TAB", "NBSP"}

RECURSIVE LStrip(_)
LStrip(cs) ==
    IF cs /= <<>> /\ IsSpace(Head(cs)) THEN LStrip(Tail(cs)) ELSE cs

RECURSIVE RStrip(_)
RStrip(cs) ==
    IF cs /= <<>> /\ IsSpace(cs[Len(cs)])
    THEN RStrip(SubSeq(cs, 1, Len(cs) - 1)) ELSE cs

Strip(cs) == RStrip(LStrip(cs))

Upper(cs) ==
    [i \in 1..Len(cs) |-> IF cs[i] \in DOMAIN UpperOf THEN UpperOf[cs[i]]
                          ELSE cs[i]]

\* .replace(' ', '')
RemoveSpaces(cs) == SelectSeq(cs, LAMBDA ch : ch /= " ")

\* ''.join(_GREEK_TO_LATIN.get(ch, ch) for ch in sanitized)
RECURSIVE Transliterate(_)
Transliterate(cs) ==
    IF cs = <<>> THEN <<>>
    ELSE (IF Head(cs) \in DOMAIN GREEK_TO_LATIN THEN GREEK_TO_LATIN[Head(cs)]
          ELSE <<Head(cs)>>) \o Transliterate(Tail(cs))

\* normalize_route_name, on the characters of name; the result is the
\* characters of the key.
\* name is None: no text at all, told apart from the empty text.
NoText == <<None>>

NormalizeKeepCase(name) ==
    IF name = NoText \/ name = <<>> THEN <<>>
    ELSE Transliterate(RemoveSpaces(Strip(name)))

NormalizeRouteName(name) ==
    IF name = NoText \/ name = <<>> THEN <<>>
    ELSE Transliterate(RemoveSpaces(Upper(Strip(name))))

----------------------------------------------------------------------------
(* services/arrivals.py enrich_arrivals_with_route_info *)

MaxEvents == 3     \* live events in one call
MaxRoutes == 2     \* known routes in one call

\* The index of the last route whose key matches, 0 if none does.
RECURSIVE LastMatch(_, _)
LastMatch(rs, normalized_route) ==
    IF rs = <<>> THEN 0
    ELSE IF NormalizeRouteName(Chars[rs[Len(rs)].route_short_name])
            = normalized_route
         THEN Len(rs)
         ELSE LastMatch(SubSeq(rs, 1, Len(rs) - 1), normalized_route)

\* next((r for r in routes if normalize_route_name(...) == normalized_route),
\* None): the index of the first route whose key matches, 0 for None.
RECURSIVE FirstMatch(_, _)
FirstMatch(rs, normalized_route) ==
    IF rs = <<>> THEN 0
    ELSE IF NormalizeRouteName(Chars[Head(rs).route_short_name])
            = normalized_route
         THEN 1
         ELSE LET i == FirstMatch(Tail(rs), normalized_route)
              IN  IF i = 0 THEN 0 ELSE i + 1

\* The dict appended for one arrival, lines 121-138.
EnrichOne(arrival, rs) ==
    LET normalized_route ==
            NormalizeRouteName(Chars[arrival.route_short_name])
        i == FirstMatch(rs, normalized_route)
    IN  [route_short_name |-> arrival.route_short_name,
         arrival_time |-> arrival.arrival_time,
         time_left |-> arrival.time_left,
         route_id |-> IF i > 0 THEN rs[i].route_id ELSE None,
         trip_headsign |-> IF i > 0 THEN rs[i].trip_headsign
                           ELSE "Unknown Destination",
         route_color |-> IF i > 0 THEN rs[i].route_color ELSE "FFFFFF",
         route_text_color |-> IF i > 0 THEN rs[i].route_text_color
                              ELSE "000000",
         is_live |-> arrival.is_live]

\* An insertion that puts x before the elements with its key.
RECURSIVE InsertBeforeEqual(_, _)
InsertBeforeEqual(sorted, x) ==
    IF sorted = <<>> THEN <<x>>
    ELSE IF x.time_left <= Head(sorted).time_left THEN <<x>> \o sorted
         ELSE <<Head(sorted)>> \o InsertBeforeEqual(Tail(sorted), x)

\* list.sort is stable: x goes behind every element whose key is not
\* greater than its own.
RECURSIVE InsertSorted(_, _)
InsertSorted(sorted, x) ==
    IF sorted = <<>> THEN <<x>>
    ELSE IF x.time_left < Head(sorted).time_left THEN <<x>> \o sorted
         ELSE <<Head(sorted)>> \o InsertSorted(Tail(sorted), x)

\* enriched.sort(key=lambda x: x['time_left'])
RECURSIVE SortByTimeLeft(_)
SortByTimeLeft(enriched) ==
    IF enriched = <<>> THEN <<>>
    ELSE InsertSorted(SortByTimeLeft(SubSeq(enriched, 1, Len(enriched) - 1)),
                      enriched[Len(enriched)])

EnrichArrivalsWithRouteInfo(arrivals, rs) ==
    SortByTimeLeft([i \in 1..Len(arrivals) |-> EnrichOne(arrivals[i], rs)])

\* The inputs of the function: live events as fetch_realtime_arrivals
\* returns them and route dicts as get_routes_for_stop returns them.
LiveEvent(label, time_left) ==
    [route_short_name |-> label, arrival_time |-> <<"12", "00", "00">>,
     time_left |-> time_left, is_live |-> TRUE]

LiveEvents ==
    {LiveEvent(l, m) : l \in {"30a", "30<Alpha>", "99"}, m \in {1, 5}}

KnownRoute(id, short, headsign, color) ==
    [route_id |-> id, route_short_name |-> short,
     route_long_name |-> "Port - Center", route_color |-> color,
     route_text_color |-> "FFFFFF", trip_headsign |-> headsign,
     stop_position |-> "origin"]

KnownRoutes ==
    {KnownRoute("R1", "30A", "Center", "FF0000"),
     KnownRoute("R2", "30 a", "Mall", "00FF00"),
     KnownRoute("R3", "31", "Port", "0000FF")}

SeqsUpTo(S, n) == UNION {[1..k -> S] : k \in 0..n}

InitE ==
    /\ archive = [c \in Cities |-> Absent]
    /\ InitImport
    /\ InitDownload
    /\ InitSync
    /\ InitUtil
    /\ astop = None /\ page = <<>> /\ fetch = None
    /\ queries = <<>> /\ now = <<>>
    /\ stop_info = NoStopInfo /\ response = <<>>
    /\ apc = "enrich"
    /\ realtime_arrivals \in SeqsUpTo(LiveEvents, MaxEvents)
    /\ routes \in SeqsUpTo(KnownRoutes, MaxRoutes)

EnrichArrivals ==
    /\ apc = "enrich"
    /\ response' = EnrichArrivalsWithRouteInfo(realtime_arrivals, routes)
    /\ apc' = "enriched"
    /\ UNCHANGED <<astop, queries, now, page, fetch, stop_info, routes,
                   realtime_arrivals>>
    /\ UNCHANGED <<archive, importVars, downloadVars, syncVars, utilVars>>

NextE == EnrichArrivals

SpecEnrich == InitE /\ [][NextE]_vars

----------------------------------------------------------------------------
(* Properties of the fusion, specification SpecEnrich *)

\* The indices of the routes whose canonical short name is that of label.
Matches(rs, label) ==
    {i \in 1..Len(rs) :
        NormalizeRouteName(Chars[rs[i].route_short_name])
        = NormalizeRouteName(Chars[label])}

\* C14: every enriched event carries the route_id, headsign, color and text
\* color of the first route of the list whose canonical short name equals
\* the canonical form of the event's label, and route_id None, headsign
\* "Unknown Destination", color "FFFFFF", text color "000000" when no route
\* of the list matches.
C14_Enrich ==
    apc = "enriched" =>
        \A k \in 1..Len(response) :
            LET e == response[k]
                M == Matches(routes, e.route_short_name)
            IN  IF M = {}
                THEN /\ e.route_id = None
                     /\ e.trip_headsign = "Unknown Destination"
                     /\ e.route_color = "FFFFFF"
                     /\ e.route_text_color = "000000"
                ELSE /\ e.route_id = routes[Least(M)].route_id
                     /\ e.trip_headsign = routes[Least(M)].trip_headsign
                     /\ e.route_color = routes[Least(M)].route_color
                     /\ e.route_text_color = routes[Least(M)].route_text_color

\* Two routes of the list have the key of one event, the second of them
\* under another spelling, and another event matches no route.
C14_Witness ==
    /\ apc = "enriched"
    /\ \E k1, k2 \in 1..Len(response) :
        /\ Cardinality(Matches(routes, response[k1].route_short_name)) = 2
        /\ response[k1].route_short_name = "30<Alpha>"
        /\ response[k1].route_id = routes[1].route_id
        /\ Matches(routes, response[k2].route_short_name) = {}
        /\ response[k2].trip_headsign = "Unknown Destination"

\* What an enriched event keeps of the live event it was made from.
EventOf(e) ==
    [route_short_name |-> e.route_short_name, arrival_time |-> e.arrival_time,
     time_left |-> e.time_left, is_live |-> e.is_live]

WithTimeLeft(events, m) == SelectSeq(events, LAMBDA e : e.time_left = m)

\* C15: the result has the input's events, each once, in ascending order of
\* time_left, and the events with one time_left in the order the input had
\* them.
C15_StableSort ==
    apc = "enriched" =>
        /\ Len(response) = Len(realtime_arrivals)
        /\ \A k \in 1..(Len(response) - 1) :
               response[k].time_left <= response[k + 1].time_left
        /\ \A m \in {realtime_arrivals[k].time_left :
                        k \in 1..Len(realtime_arrivals)} :
               [k \in 1..Len(WithTimeLeft(response, m)) |->
                    EventOf(WithTimeLeft(response, m)[k])]
               = WithTimeLeft(realtime_arrivals, m)

\* Events with time_left 5, 1, 5 came out as 1, 5, 5, the two with 5 being
\* different events in their input order.
C15_Witness ==
    /\ apc = "enriched" /\ Len(realtime_arrivals) = 3
    /\ realtime_arrivals[1].time_left = 5
    /\ realtime_arrivals[2].time_left = 1
    /\ realtime_arrivals[3].time_left = 5
    /\ realtime_arrivals[1] /= realtime_arrivals[3]
    /\ EventOf(response[1]) = realtime_arrivals[2]
    /\ EventOf(response[2]) = realtime_arrivals[1]
    /\ EventOf(response[3]) = realtime_arrivals[3]

----------------------------------------------------------------------------
(* utils/timezone.py *)

\* A datetime in Cyprus local time: the day (0 is the day of the request),
\* the second of the day and the microsecond.  The days modelled have no
\* change of the UTC offset, so differences are differences of wall-clock
\* time.
DateTime(d, sec, us) == [d |-> d, s |-> sec, us |-> us]

\* A time string is written as the fields that str.split(':') gives:
\* "25:30:00" is <<"25", "30", "00">>, the empty string is <<"">>.

\* datetime + timedelta(minutes=n)
PlusMinutes(dt, n) ==
    LET t == dt.s + 60 * n
    IN  DateTime(dt.d + (t \div 86400), t % 86400, dt.us)

\* datetime + timedelta(days=n)
PlusDays(dt, n) == DateTime(dt.d + n, dt.s, dt.us)

\* dt.strftime('%H:%M:%S')
StrfTime(dt) ==
    <<TwoDigits[(dt.s \div 3600) + 1], TwoDigits[((dt.s % 3600) \div 60) + 1],
      TwoDigits[(dt.s % 60) + 1]>>

\* a < b on datetimes
Before(a, b) ==
    \/ a.d < b.d
    \/ a.d = b.d /\ a.s < b.s
    \/ a.d = b.d /\ a.s = b.s /\ a.us < b.us

\* parse_gtfs_time: no datetime but Err where the code raises ValueError
\* (an empty string, a field that int() rejects, a field that
\* datetime.replace rejects).
ParseGtfsTimeRaises(parts) ==
    \/ parts = <<"">>
    \/ PyInt(parts[1]) = Err
    \/ Len(parts) > 1 /\ PyInt(parts[2]) = Err
    \/ Len(parts) > 2 /\ PyInt(parts[3]) = Err
    \/ IntVal[PyInt(parts[1])] < 0
    \/ Len(parts) > 1 /\ IntVal[PyInt(parts[2])] \notin 0..59
    \/ Len(parts) > 2 /\ IntVal[PyInt(parts[3])] \notin 0..59

ParseGtfsTimeSameDay(parts, reference_date) ==
    LET hours == IntVal[PyInt(parts[1])]
        minutes == IF Len(parts) > 1 THEN IntVal[PyInt(parts[2])] ELSE 0
        seconds == IF Len(parts) > 2 THEN IntVal[PyInt(parts[3])] ELSE 0
    IN  DateTime(reference_date.d,
                 (hours % 24) * 3600 + minutes * 60 + seconds, 0)

ParseGtfsTime(parts, reference_date) ==
    LET hours == IntVal[PyInt(parts[1])]
        minutes == IF Len(parts) > 1 THEN IntVal[PyInt(parts[2])] ELSE 0
        seconds == IF Len(parts) > 2 THEN IntVal[PyInt(parts[3])] ELSE 0
        days_offset == IF hours >= 24 THEN hours \div 24 ELSE 0
        hour == IF hours >= 24 THEN hours % 24 ELSE hours
    IN  DateTime(reference_date.d + days_offset,
                 hour * 3600 + minutes * 60 + seconds, 0)

----------------------------------------------------------------------------
(* services/arrivals.py fetch_realtime_arrivals *)

MaxItems == 2      \* .arrivalTimes__list__item elements of one page

\* An item of the page: the text of its .line__item__text element (None if
\* the element is missing) and the text of its
\* .arrivalTimes__list__item__link__text2 element, as fields (NoElement if
\* the element is missing).  "<Diadromi>" and "Lepta" stand for the Greek
\* words of lines 52 and 65, Placeholder for the text of line 56.
NoElement == <<>>
Placeholder == <<"<scheduled>">>
Item(route_text, arrival_text) ==
    [route_text |-> route_text, arrival_text |-> arrival_text]

\* get_text(strip=True).split(<Diadromi>)[0].strip()
BeforeRouteWord == ("31 <Diadromi>" :> "31") @@ ("<Diadromi>" :> "")
RouteLabel(route_text) ==
    IF route_text \in DOMAIN BeforeRouteWord THEN BeforeRouteWord[route_text]
    ELSE route_text

\* The texts that contain the word "Lepta", each with what
\* .replace("Lepta", '').strip() leaves of it.
MinutesText ==
    ("5 Lepta" :> "5") @@ ("-5 Lepta" :> "-5") @@ ("x Lepta" :> "x")
HasMinutesWord(text) == Len(text) = 1 /\ text[1] \in DOMAIN MinutesText

\* int(x) of a float: towards zero
TruncDiv(a, b) == IF a >= 0 THEN a \div b ELSE 0 - ((0 - a) \div b)

\* int((arrival_dt - current_cyprus_time).total_seconds() / 60), where
\* arrival_dt has microsecond 0
MinutesBetween(arrival_dt, current) ==
    LET secs == (arrival_dt.d - current.d) * 86400 + arrival_dt.s - current.s
    IN  IF current.us = 0 THEN TruncDiv(secs, 60)
        ELSE IF secs >= 1 THEN (secs - 1) \div 60
        ELSE 0 - ((0 - secs) \div 60)

\* The time of today, whether it has passed or not.
AnchorToday(parts, current) == ParseGtfsTime(parts, current)
\* lines 77-81: the time of today, of tomorrow if that has passed
Anchor(parts, current) ==
    IF Before(ParseGtfsTime(parts, current), current)
    THEN ParseGtfsTime(parts, PlusDays(current, 1))
    ELSE ParseGtfsTime(parts, current)

KeepAny(time_left) == TRUE
\* if time_left is not None and time_left >= 0
Keep(time_left) == time_left >= 0

Arrival(route_short_name, arrival_time, time_left) ==
    [route_short_name |-> route_short_name, arrival_time |-> arrival_time,
     time_left |-> time_left, is_live |-> TRUE]

\* One pass of the loop of lines 44-94: what it appends.
FetchItem(item, current) ==
    IF item.route_text = None \/ item.arrival_text = NoElement THEN <<>>
    ELSE LET route_short_name == RouteLabel(item.route_text)
             text == item.arrival_text
         IN
         IF route_short_name = "" \/ text = Placeholder THEN <<>>
         ELSE IF HasMinutesWord(text)
         THEN IF PyInt(MinutesText[text[1]]) = Err THEN <<>>
              ELSE LET time_left == IntVal[PyInt(MinutesText[text[1]])]
                   IN  IF Keep(time_left)
                       THEN <<Arrival(route_short_name,
                                 StrfTime(PlusMinutes(current, time_left)),
                                 time_left)>>
                       ELSE <<>>
         ELSE IF ParseGtfsTimeRaises(Append(text, "00")) THEN <<>>
              ELSE LET arrival_dt == Anchor(Append(text, "00"), current)
                       time_left == MinutesBetween(arrival_dt, current)
                   IN  IF Keep(time_left)
                       THEN <<Arrival(route_short_name, text, time_left)>>
                       ELSE <<>>

\* The item passes the two continue of lines 48-57 and the loop reads the
\* clock for it: current_cyprus_time = get_cyprus_now(), line 63.
ReadsClock(item) ==
    /\ item.route_text /= None /\ item.arrival_text /= NoElement
    /\ RouteLabel(item.route_text) /= ""
    /\ item.arrival_text /= Placeholder

\* How many times the loop over items calls get_cyprus_now().
ClockReads(items) ==
    Cardinality({i \in 1..Len(items) : ReadsClock(items[i])})

\* The loop of lines 44-94; clock holds what the calls of get_cyprus_now()
\* return, in their order.
RECURSIVE FetchItems(_, _)
FetchItems(items, clock) ==
    IF items = <<>> THEN <<>>
    ELSE IF ReadsClock(Head(items))
    THEN FetchItem(Head(items), Head(clock))
         \o FetchItems(Tail(items), Tail(clock))
    ELSE FetchItems(Tail(items), clock)

\* What client.get comes to: a 200 response, another status, a timeout,
\* another exception (no connection).
FetchOutcomes == {"ok", "non200", "timeout", "error"}

\* A fetch that lets its exceptions go to the caller.
FetchRaisesErrors(outcome) == outcome \in {"timeout", "error"}
\* except httpx.TimeoutException / except Exception: nothing is raised
FetchRaises(outcome) == FALSE

FetchRealtimeArrivals(outcome, items, clock) ==
    IF outcome = "ok" THEN FetchItems(items, clock) ELSE <<>>

----------------------------------------------------------------------------
(* routers/arrivals.py *)

\* for i in range(0, len(rows), batch_size): the rows of the batch, then
\* commit; an exception ends the loop before the batch's commit.
RECURSIVE ForEachBatch(_, _, _)
ForEachBatch(s, t, rows) ==
    IF rows = <<>> THEN s
    ELSE LET n == Min(batch_size, Len(rows))
             s1 == ForEachRow(s, t, SubSeq(rows, 1, n))
         IN  IF s1.exc /= NoError THEN s1
             ELSE ForEachBatch(Commit(s1), t, SubSeq(rows, n + 1, Len(rows)))

\* _import_gtfs_file on the archive a, from the section of Head(ts) on:
\* the sections agency .. trips commit once after their loop, stop_times
\* and shapes after every batch; the first exception ends the function.
RECURSIVE ImportTables(_, _, _)
ImportTables(s, a, ts) ==
    IF ts = <<>> \/ s.exc /= NoError THEN s
    ELSE LET rows == ParseCsvFromZip(a, FileOf(Head(ts)))
             s1 == IF Head(ts) \in {"stop_times", "shapes"}
                   THEN ForEachBatch(s, Head(ts), rows)
                   ELSE LET s2 == RunTable(s, Head(ts), rows)
                        IN  IF s2.exc = NoError THEN Commit(s2) ELSE s2
         IN  ImportTables(s1, a, Tail(ts))

\* The store after import_gtfs(city) was called once for each archive of
\* feeds, lying as <city>.zip: the exception of _import_gtfs_file is
\* caught without a rollback, _add_indexes commits, the request ends.
\* s is the session that _import_gtfs_file leaves.
RECURSIVE StoreAfter(_)
StoreAfter(feeds) ==
    IF feeds = <<>> THEN EmptyStore
    ELSE LET d == StoreAfter(SubSeq(feeds, 1, Len(feeds) - 1))
         IN  CHOOSE after \in
                 {Close(AddIndexes(s)).db :
                     s \in {ImportTables(Session(d, d, FALSE),
                                         feeds[Len(feeds)], Tables)}}
                 : TRUE

Stores == {StoreAfter(<<>>), StoreAfter(<<"A">>), StoreAfter(<<"A", "B">>)}

StopIds == {"1", "3", "7"}

\* stop_sequence_subq: the stop_times of the stop joined with their trips;
\* the window functions range over the rows that the filter has left.
StopSequenceSubq(stop_id, d) ==
    LET joined == {<<st, t>> \in d["stop_times"] \X d["trips"] :
                      st.trip_id = t.trip_id /\ st.stop_id = stop_id}
        partition(trip_id) ==
            {IntVal[x[1].stop_sequence] : x \in {y \in joined :
                                                  y[2].trip_id = trip_id}}
    IN  {[route_id |-> x[2].route_id,
          trip_headsign |-> x[2].trip_headsign,
          stop_sequence |-> IntVal[x[1].stop_sequence],
          max_sequence |-> Max(partition(x[2].trip_id)),
          min_sequence |-> Least(partition(x[2].trip_id))] : x \in joined}

\* sql_case(...).label('stop_position')
StopPosition(q) ==
    IF q.stop_sequence = q.min_sequence THEN "origin"
    ELSE IF q.stop_sequence = q.max_sequence THEN "destination"
    ELSE "intermediate"

\* route_directions: the rows of the second query, DISTINCT.
RouteDirections(stop_id, d) ==
    {[route_id |-> x[1].route_id,
      route_short_name |-> x[1].route_short_name,
      route_long_name |-> x[1].route_long_name,
      route_color |-> x[1].route_color,
      route_text_color |-> x[1].route_text_color,
      trip_headsign |-> x[2].trip_headsign,
      stop_position |-> StopPosition(x[4])] :
        x \in {y \in d["routes"] \X d["trips"] \X d["stop_times"]
                     \X StopSequenceSubq(stop_id, d) :
                  /\ y[1].route_id = y[2].route_id
                  /\ y[2].trip_id = y[3].trip_id
                  /\ y[1].route_id = y[4].route_id
                  /\ y[3].stop_id = stop_id}}

\* row.route_color or 'FFFFFF'
Or(v, default) == IF Truthy(v) THEN v ELSE default

\* The loop of lines 113-125: the first row of each route_short_name.
RECURSIVE FirstOfEachRoute(_, _)
FirstOfEachRoute(rows, seen_routes) ==
    IF rows = <<>> THEN <<>>
    ELSE IF Head(rows).route_short_name \in seen_routes
         THEN FirstOfEachRoute(Tail(rows), seen_routes)
         ELSE <<[Head(rows) EXCEPT
                    !.route_color = Or(@, "FFFFFF"),
                    !.route_text_color = Or(@, "000000")]>>
              \o FirstOfEachRoute(Tail(rows),
                     seen_routes \cup {Head(rows).route_short_name})

\* The orders in which a query without ORDER BY can return its rows.
Orders(S) ==
    {f \in [1..Cardinality(S) -> S] :
        \A i, j \in 1..Cardinality(S) : f[i] = f[j] => i = j}

\* What a query of the session comes to: its rows, or an exception of the
\* database (the connection is lost).
QueryOutcomes == {"ok", "OperationalError"}

\* get_routes_for_stop: the lists it can return; except Exception of lines
\* 129-131 returns [] when the query raises.
GetRoutesForStop(stop_id, d, query) ==
    IF query /= "ok" THEN {<<>>}
    ELSE {FirstOfEachRoute(rows, {}) :
             rows \in Orders(RouteDirections(stop_id, d))}

\* f"Stop {stop_id}"
StopName == ("1" :> "Stop 1") @@ ("3" :> "Stop 3") @@ ("7" :> "Stop 7")

\* A placeholder without a name.
UnnamedStopInfo(stop_id) ==
    [stop_id |-> stop_id, stop_name |-> None, stop_lat |-> None,
     stop_lon |-> None]

\* get_arrivals, lines 40-45
SyntheticStopInfo(stop_id) ==
    [stop_id |-> stop_id, stop_name |-> StopName[stop_id],
     stop_lat |-> None, stop_lon |-> None]

\* float(stop.stop_lat) if stop.stop_lat else None
FloatOrNone(v) == IF v = None \/ v = "0.0" THEN None ELSE v

\* get_arrivals, lines 30-35
StopInfo(stop) ==
    [stop_id |-> stop.stop_id, stop_name |-> stop.stop_name,
     stop_lat |-> FloatOrNone(stop.stop_lat),
     stop_lon |-> FloatOrNone(stop.stop_lon)]

\* get_arrivals, lines 25-46 and 60-64: lookup is what the query of the
\* stop comes to, query what the query of get_routes_for_stop comes to. An
\* exception of the lookup is answered with 500.
GetArrivalsStart(stop_id, lookup, query) ==
    /\ apc = "idle"
    /\ astop' = stop_id
    /\ LET found == {r \in db["stops"] : r.stop_id = stop_id}
       IN  IF lookup /= "ok"
           THEN /\ queries' = <<lookup>>
                /\ stop_info' = NoStopInfo /\ routes' = <<>>
                /\ response' = [NoResponse EXCEPT !.status = 500]
                /\ apc' = "idle"
           ELSE IF found /= {}
           THEN /\ queries' = <<lookup, query>>
                /\ stop_info' = StopInfo(CHOOSE r \in found : TRUE)
                /\ routes' \in GetRoutesForStop(stop_id, db, query)
                /\ response' = NoResponse
                /\ apc' = "fetch"
           ELSE /\ queries' = <<lookup>>
                /\ stop_info' = SyntheticStopInfo(stop_id)
                /\ routes' = <<>>
                /\ response' = NoResponse
                /\ apc' = "fetch"
    /\ realtime_arrivals' = <<>>
    /\ page' = <<>> /\ fetch' = None /\ now' = <<>>
    /\ UNCHANGED <<archive, importVars, downloadVars, syncVars, utilVars>>

\* get_arrivals, lines 48-49 and 60-64: the fetch, and the 500 that
\* answers an exception.
FetchArrivals(outcome, items, clock) ==
    /\ apc = "fetch"
    /\ fetch' = outcome /\ page' = items /\ now' = clock
    /\ IF FetchRaises(outcome)
       THEN /\ realtime_arrivals' = <<>>
            /\ response' = [NoResponse EXCEPT !.status = 500]
            /\ apc' = "idle"
       ELSE /\ realtime_arrivals' =
                   FetchRealtimeArrivals(outcome, items, clock)
            /\ apc' = "enrich"
            /\ UNCHANGED response
    /\ UNCHANGED <<astop, queries, stop_info, routes>>
    /\ UNCHANGED <<archive, importVars, downloadVars, syncVars, utilVars>>

\* get_arrivals, lines 51-58
GetArrivalsReturn ==
    /\ apc = "enrich"
    /\ response' =
           [status |-> 200, stop_info |-> stop_info,
            arrivals |-> EnrichArrivalsWithRouteInfo(realtime_arrivals, routes),
            routes |-> routes]
    /\ apc' = "idle"
    /\ UNCHANGED <<astop, queries, now, page, fetch, stop_info, routes,
                   realtime_arrivals>>
    /\ UNCHANGED <<archive, importVars, downloadVars, syncVars, utilVars>>

\* The values of get_cyprus_now() modelled: 12:00:00, 23:55:00 and
\* 23:55:20 of day 0.
Nows == {DateTime(0, 43200, 0), DateTime(0, 86100, 0), DateTime(0, 86120, 0)}

\* What n calls of get_cyprus_now() in a row can return: datetime.now reads
\* the wall clock, which can be set back between two calls.
Clocks(n) == [1..n -> Nows]

PageItems ==
    {Item("30a", <<"5 Lepta">>), Item("99", <<"-5 Lepta">>),
     Item("30a", <<"x Lepta">>), Item("30a", <<"00", "05">>),
     Item("31 <Diadromi>", <<"23", "55">>),
     Item("<Diadromi>", <<"5 Lepta">>), Item("30a", Placeholder),
     Item(None, NoElement)}

InitA ==
    /\ archive = [c \in Cities |-> Absent]
    /\ db \in Stores /\ tx = db /\ aborted = FALSE
    /\ pc = "idle" /\ queue = <<>> /\ bi = 0
    /\ stats = EmptyStats /\ results = NoResults
    /\ ierr = NoError /\ iarg = None /\ calls = 0
    /\ wlog = <<>> /\ fkViol = {} /\ durable = {} /\ prev = <<>>
    /\ InitDownload
    /\ InitSync
    /\ InitUtil
    /\ InitArrivals

NextA ==
    \/ \E stop_id \in StopIds, query \in QueryOutcomes :
           GetArrivalsStart(stop_id, "ok", query)
    \/ \E stop_id \in StopIds, lookup \in QueryOutcomes \ {"ok"} :
           GetArrivalsStart(stop_id, lookup, "ok")  \* no second query
    \/ \E outcome \in FetchOutcomes \ {"ok"} :
           FetchArrivals(outcome, <<>>, <<>>)
    \/ \E items \in SeqsUpTo(PageItems, MaxItems) :
           \E clock \in Clocks(ClockReads(items)) :
               FetchArrivals("ok", items, clock)
    \/ GetArrivalsReturn

SpecArrivals == InitA /\ [][NextA]_vars

----------------------------------------------------------------------------
(* Properties of the arrival board, specification SpecArrivals *)

\* An item that the loop reads as a time of day HH:MM with a route label.
IsClockItem(it) ==
    /\ it.route_text /= None /\ RouteLabel(it.route_text) /= ""
    /\ Len(it.arrival_text) = 2
    /\ it.arrival_text[1] \in DOMAIN IntLit
    /\ it.arrival_text[2] \in DOMAIN IntLit
    /\ IntVal[IntLit[it.arrival_text[1]]] \in 0..23
    /\ IntVal[IntLit[it.arrival_text[2]]] \in 0..59

\* The second of the day of HH:MM:00.
ClockSecs(text) ==
    IntVal[IntLit[text[1]]] * 3600 + IntVal[IntLit[text[2]]] * 60

\* What get_cyprus_now() returned for item i of the page.
ReadingOf(i) == now[ClockReads(SubSeq(page, 1, i))]

\* How many arrivals the items 1..i of the page have appended.
Appended(i) == Len(FetchItems(SubSeq(page, 1, i), now))

\* Item i has appended an arrival, and the arrival.
HasArrival(i) == Appended(i) = Appended(i - 1) + 1
ArrivalOf(i) == realtime_arrivals[Appended(i)]

\* HH:MM:00 of today is earlier than the reading cur of the clock.
PassedToday(text, cur) ==
    \/ ClockSecs(text) < cur.s
    \/ ClockSecs(text) = cur.s /\ cur.us > 0

\* C16: a prediction HH:MM whose time of today is earlier than now is kept
\* as an arrival of tomorrow: its time_left is not negative and is the whole
\* minutes from now to HH:MM:00 of tomorrow; at 23:55:00 a prediction 00:05
\* has time_left 10.
C16_Rollover ==
    (apc = "enrich" /\ fetch = "ok") =>
        \A i \in 1..Len(page) :
            (IsClockItem(page[i])
             /\ PassedToday(page[i].arrival_text, ReadingOf(i)))
            => /\ HasArrival(i)
               /\ LET e == ArrivalOf(i)
                      secs == 86400 + ClockSecs(page[i].arrival_text)
                              - ReadingOf(i).s
                  IN  /\ e.route_short_name = RouteLabel(page[i].route_text)
                      /\ e.arrival_time = page[i].arrival_text
                      /\ e.time_left >= 0
                      /\ e.time_left * 60 <= secs
                      /\ secs - e.time_left * 60 <= 60
                      /\ (ReadingOf(i) = DateTime(0, 86100, 0)
                          /\ e.arrival_time = <<"00", "05">>)
                         => e.time_left = 10

\* The page had a prediction 00:05 as its second item; the clock was read
\* at 23:55:00 for it, and it was returned with time_left 10.
C16_Witness ==
    /\ apc = "enrich" /\ fetch = "ok"
    /\ Len(page) = 2 /\ Len(now) = 2 /\ now[2] = DateTime(0, 86100, 0)
    /\ page[2].arrival_text = <<"00", "05">>
    /\ Len(realtime_arrivals) = 2
    /\ realtime_arrivals[2].arrival_time = <<"00", "05">>
    /\ realtime_arrivals[2].time_left = 10

\* C17: every arrival that fetch_realtime_arrivals returns has a time_left
\* of 0 or more; an item whose time_left comes out negative is left out.
C17_NonNegative ==
    /\ \A k \in 1..Len(realtime_arrivals) :
           realtime_arrivals[k].time_left >= 0
    /\ (apc = "enrich" /\ fetch = "ok")
       => Len(realtime_arrivals)
          <= Cardinality({i \in 1..Len(page) :
                 page[i].arrival_text /= <<"-5 Lepta">>})

\* The page had an item of -5 minutes and an item of 5 minutes; only the
\* second was returned.
C17_Witness ==
    /\ apc = "enrich" /\ fetch = "ok" /\ Len(page) = 2
    /\ page[1].arrival_text = <<"-5 Lepta">>
    /\ page[1].route_text = "99"
    /\ page[2].arrival_text = <<"5 Lepta">>
    /\ Len(realtime_arrivals) = 1
    /\ realtime_arrivals[1].time_left = 5

\* C18: fetch_realtime_arrivals raises nothing: a status other than 200, a
\* timeout and any other exception of the request give the empty list, and
\* get_arrivals then answers 200 with no arrivals, never 500: once the
\* fetch has run, the response is not an error.
C18_FetchNeverFatal ==
    /\ fetch /= None => response.status \in {0, 200}
    /\ (apc = "enrich" /\ fetch \in FetchOutcomes \ {"ok"})
       => realtime_arrivals = <<>>
    /\ (apc = "idle" /\ fetch \in FetchOutcomes \ {"ok"})
       => /\ response.status = 200
          /\ response.arrivals = <<>>
          /\ response.stop_info = stop_info
          /\ response.routes = routes

\* The request to the Motion site timed out for a stop of the store that
\* has routes; the response is 200 with the routes and no arrivals.
C18_Witness ==
    /\ apc = "idle" /\ fetch = "timeout"
    /\ response.status = 200 /\ response.arrivals = <<>>
    /\ response.routes /= <<>>
    /\ response.stop_info.stop_name = "Old Port"

\* How often x occurs in a list.
Count(list, x) == Cardinality({k \in 1..Len(list) : list[k] = x})

\* C19: for a stop_id that the store does not have, get_arrivals answers
\* with stop_info {stop_id, stop_name "Stop <id>"} without coordinates, no
\* routes, and every arrival that was fetched, each with route_id None and
\* the default headsign and colors (the lookup of the stop has answered).
C19_UnknownStop ==
    (/\ apc = "idle" /\ response.status /= 0
     /\ queries = <<"ok">>
     /\ \A r \in db["stops"] : r.stop_id /= astop)
    => /\ response.status = 200
       /\ response.stop_info.stop_id = astop
       /\ response.stop_info.stop_name = StopName[astop]
       /\ response.stop_info.stop_lat = None
       /\ response.stop_info.stop_lon = None
       /\ response.routes = <<>>
       /\ Len(response.arrivals) = Len(realtime_arrivals)
       /\ \A k \in 1..Len(realtime_arrivals) :
              Count([j \in 1..Len(response.arrivals) |->
                        EventOf(response.arrivals[j])], realtime_arrivals[k])
              = Count(realtime_arrivals, realtime_arrivals[k])
       /\ \A k \in 1..Len(response.arrivals) :
              /\ response.arrivals[k].route_id = None
              /\ response.arrivals[k].trip_headsign = "Unknown Destination"
              /\ response.arrivals[k].route_color = "FFFFFF"
              /\ response.arrivals[k].route_text_color = "000000"

\* Stop 7 is not in the store, which has other stops and a route "30A";
\* two arrivals were fetched, one of them of route "30a", and returned.
C19_Witness ==
    /\ apc = "idle" /\ response.status = 200 /\ astop = "7"
    /\ db = StoreAfter(<<"A", "B">>)
    /\ response.stop_info.stop_name = "Stop 7"
    /\ Len(response.arrivals) = 2
    /\ \E k \in 1..2 : response.arrivals[k].route_short_name = "30a"

\* The position of a stop_time in the full sequence of its trip.
PositionInTrip(st) ==
    LET seqs == {IntVal[x.stop_sequence] :
                    x \in {y \in db["stop_times"] : y.trip_id = st.trip_id}}
    IN  IF IntVal[st.stop_sequence] = Least(seqs) THEN "origin"
        ELSE IF IntVal[st.stop_sequence] = Max(seqs) THEN "destination"
        ELSE "intermediate"

\* C20: the stop_position of every route that get_routes_for_stop returns
\* is the position that the stop has in the full stop sequence of a trip of
\* that route: origin at the trip's least sequence number, destination at
\* its greatest, intermediate between the two.
C20_Position ==
    apc = "fetch" =>
        \A k \in 1..Len(routes) :
            \E st \in db["stop_times"], t \in db["trips"] :
                /\ st.stop_id = astop
                /\ st.trip_id = t.trip_id
                /\ t.route_id = routes[k].route_id
                /\ routes[k].stop_position = PositionInTrip(st)

----------------------------------------------------------------------------
(* utils/timezone.py time_to_seconds_cyprus, seconds_to_time_cyprus *)

MaxHour == 47      \* the largest hour field of the time strings tried

\* time_to_seconds_cyprus raises ValueError where int() rejects a field.
TimeToSecondsRaises(parts) ==
    \/ PyInt(parts[1]) = Err
    \/ Len(parts) > 1 /\ PyInt(parts[2]) = Err
    \/ Len(parts) > 2 /\ PyInt(parts[3]) = Err

TimeToSecondsReduced(parts) ==
    LET hours == IntVal[PyInt(parts[1])]
        minutes == IF Len(parts) > 1 THEN IntVal[PyInt(parts[2])] ELSE 0
        seconds == IF Len(parts) > 2 THEN IntVal[PyInt(parts[3])] ELSE 0
    IN  ((hours * 3600) + (minutes * 60) + seconds) % 86400

TimeToSecondsCyprus(parts) ==
    LET hours == IntVal[PyInt(parts[1])]
        minutes == IF Len(parts) > 1 THEN IntVal[PyInt(parts[2])] ELSE 0
        seconds == IF Len(parts) > 2 THEN IntVal[PyInt(parts[3])] ELSE 0
        total_seconds == (hours * 3600) + (minutes * 60) + seconds
    IN  total_seconds

\* f"{n:02d}", for n below 100
Format02d(n) == TwoDigits[n + 1]

SecondsToTimeCyprus(seconds) ==
    LET hours == seconds \div 3600
        minutes == (seconds % 3600) \div 60
        secs == seconds % 60
    IN  <<Format02d(hours), Format02d(minutes), Format02d(secs)>>

Returned(v) == [raised |-> FALSE, value |-> v]
Raised == [raised |-> TRUE, value |-> <<>>]

\* The time strings tried: every HH:MM:SS up to the hour max_hour, the same
\* with the hour written without a leading zero, shorter forms, and
\* strings that are no times.
TimeStrings(max_hour) ==
    {<<hh, TwoDigits[m + 1], TwoDigits[sec + 1]>> :
         hh \in {TwoDigits[h + 1] : h \in 0..max_hour}
                \cup {Decimal[h + 1] : h \in 0..max_hour},
         m \in 0..59, sec \in 0..59}
    \cup {<<"25">>, <<"25", "30">>, <<"">>, <<"x", "00", "00">>,
          <<"12", "61", "00">>, <<"12", "00", "75">>, <<"12", "", "00">>}

\* reference_date values: late in the day of the request, with a fraction
\* of a second, and midnight of the day after.
ReferenceDates == {DateTime(0, 86130, 500000), DateTime(1, 0, 0)}

ParseTime(reference_date) ==
    /\ upc = "idle"
    /\ uref' = reference_date
    /\ uout' = IF ParseGtfsTimeRaises(uarg) THEN Raised
               ELSE Returned(ParseGtfsTime(uarg, reference_date))
    /\ upc' = "parsed"
    /\ UNCHANGED uarg
    /\ UNCHANGED <<archive, importVars, downloadVars, syncVars, arrivalVars>>

TimeToSeconds ==
    /\ upc = "idle"
    /\ uout' = IF TimeToSecondsRaises(uarg) THEN Raised
               ELSE Returned(TimeToSecondsCyprus(uarg))
    /\ upc' = "seconds"
    /\ UNCHANGED <<uarg, uref>>
    /\ UNCHANGED <<archive, importVars, downloadVars, syncVars, arrivalVars>>

\* seconds_to_time_cyprus of what time_to_seconds_cyprus returned
SecondsToTime ==
    /\ upc = "seconds"
    /\ ~uout.raised
    /\ uout' = Returned(SecondsToTimeCyprus(uout.value))
    /\ upc' = "time"
    /\ UNCHANGED <<uarg, uref>>
    /\ UNCHANGED <<archive, importVars, downloadVars, syncVars, arrivalVars>>

InitT ==
    /\ archive = [c \in Cities |-> Absent]
    /\ InitImport
    /\ InitDownload
    /\ InitSync
    /\ InitArrivals
    /\ upc = "idle" /\ uref = [d |-> 0, s |-> 0, us |-> 0]
    /\ uout = NoResult
    /\ uarg \in TimeStrings(MaxHour)

NextT ==
    \/ \E reference_date \in ReferenceDates : ParseTime(reference_date)
    \/ TimeToSeconds
    \/ SecondsToTime

SpecTime == InitT /\ [][NextT]_vars

----------------------------------------------------------------------------
(* Properties of the time conversions, specification SpecTime *)

\* The number a field of digits is the numeral of.
IsNumeral(f) ==
    \E n \in 0..99 : f = Decimal[n + 1] \/ f = TwoDigits[n + 1]
NumberOf(f) ==
    CHOOSE n \in 0..99 : f = Decimal[n + 1] \/ f = TwoDigits[n + 1]

\* The argument is H:MM:SS with H >= 0, MM and SS two digits below 60.
IsHMS(parts) ==
    /\ Len(parts) = 3
    /\ IsNumeral(parts[1])
    /\ \E m \in 0..59 : parts[2] = TwoDigits[m + 1]
    /\ \E sec \in 0..59 : parts[3] = TwoDigits[sec + 1]

\* C21: parse_gtfs_time("H:MM:SS", ref=D) for any hour H >= 0 returns the
\* date of D plus H div 24 days at the time of day (H mod 24, MM, SS);
\* "25:30:00" gives the day after D at 01:30:00.
C21_ParseRollover ==
    (upc = "parsed" /\ IsHMS(uarg)) =>
        /\ ~uout.raised
        /\ uout.value.d = uref.d + (NumberOf(uarg[1]) \div 24)
        /\ uout.value.s = (NumberOf(uarg[1]) % 24) * 3600
                          + NumberOf(uarg[2]) * 60 + NumberOf(uarg[3])
        /\ uout.value.us = 0
        /\ (uarg = <<"25", "30", "00">>) =>
               uout.value = DateTime(uref.d + 1, 5400, 0)

C21_Witness ==
    /\ upc = "parsed"
    /\ uarg = <<"25", "30", "00">>
    /\ uref = DateTime(0, 86130, 500000)
    /\ uout = Returned(DateTime(1, 5400, 0))

\* C22: for h in 0..47, m and s in 0..59, seconds_to_time_cyprus of
\* time_to_seconds_cyprus of fmt(h, m, s) is fmt(h, m, s) again, and
\* time_to_seconds_cyprus reduces nothing modulo a day: "25:30:00" gives
\* 91800.
IsFmt(parts) ==
    /\ IsHMS(parts)
    /\ \E h \in 0..MaxHour : parts[1] = TwoDigits[h + 1]

C22_RoundTrip ==
    /\ (upc = "seconds" /\ IsFmt(uarg)) =>
          /\ ~uout.raised
          /\ uout.value = NumberOf(uarg[1]) * 3600 + NumberOf(uarg[2]) * 60
                          + NumberOf(uarg[3])
          /\ (uarg = <<"25", "30", "00">>) => uout.value = 91800
    /\ (upc = "time" /\ IsFmt(uarg)) =>
          /\ ~uout.raised
          /\ uout.value = uarg

C22_Witness ==
    /\ upc = "time"
    /\ uarg = <<"25", "30", "00">>
    /\ uout = Returned(<<"25", "30", "00">>)

----------------------------------------------------------------------------
(* utils/text.py normalize_route_name, called on its own *)

MaxLen == 3        \* characters of a route label

\* The characters of the labels tried: Latin and Greek letters of both
\* cases, a digit, and three kinds of whitespace.
Alphabet == {"a", "A", "1", " ", "TAB", "NBSP", "theta", "Alpha"}

Labels == SeqsUpTo(Alphabet, MaxLen) \cup {NoText}

\* str.lower(), for the letters of Alphabet
LowerOf == ("A" :> "a") @@ ("Alpha" :> "alpha") @@ ("Theta" :> "theta")
Lower(cs) ==
    [i \in 1..Len(cs) |-> IF cs[i] \in DOMAIN LowerOf THEN LowerOf[cs[i]]
                          ELSE cs[i]]

\* The labels that differ from name in the case of letters or in
\* surrounding spaces only.
Variants(name) ==
    {Upper(name), Lower(name), <<" ">> \o name, name \o <<" ">>,
     <<" ", " ">> \o name \o <<" ">>}

Normalize ==
    /\ upc = "idle"
    /\ uout' = Returned(NormalizeRouteName(uarg))
    /\ upc' = "normalized"
    /\ UNCHANGED <<uarg, uref>>
    /\ UNCHANGED <<archive, importVars, downloadVars, syncVars, arrivalVars>>

\* A second call: on the key the first call returned, or on a variant of
\* the first label.
NormalizeNext(name) ==
    /\ upc = "normalized"
    /\ uarg' = name
    /\ uout' = Returned(NormalizeRouteName(name))
    /\ upc' = "again"
    /\ UNCHANGED uref
    /\ UNCHANGED <<archive, importVars, downloadVars, syncVars, arrivalVars>>

InitN ==
    /\ archive = [c \in Cities |-> Absent]
    /\ InitImport
    /\ InitDownload
    /\ InitSync
    /\ InitArrivals
    /\ upc = "idle" /\ uref = [d |-> 0, s |-> 0, us |-> 0]
    /\ uout = NoResult
    /\ uarg \in Labels

NextN ==
    \/ Normalize
    \/ NormalizeNext(uout.value)
    \/ \E name \in Variants(uarg) : uarg /= NoText /\ NormalizeNext(name)

SpecText == InitN /\ [][NextN]_vars

----------------------------------------------------------------------------
(* Properties of the route key, specification SpecText *)

\* C23: normalize_route_name is idempotent, maps the empty string and null
\* to the empty string, and gives labels that differ in case or in
\* surrounding spaces the same key ("  a1 " and "A1" both give A1).
C23_Canon ==
    /\ [](upc = "normalized" /\ uarg \in {<<>>, NoText} => uout.value = <<>>)
    /\ [](upc = "normalized" /\ uarg = <<" ", "a", "1", " ">> =>
             uout.value = <<"A", "1">>)
    /\ [](upc = "normalized" /\ uarg = <<"A", "1">> =>
             uout.value = <<"A", "1">>)
    /\ [][upc = "normalized" /\ upc' = "again" => uout' = uout]_vars

C23_Witness ==
    /\ upc = "again"
    /\ uarg = <<" ", "a", "theta">>
    /\ uout.value = <<"A", "T", "H">>

\* C24: the key contains no whitespace character, wherever whitespace
\* occurs in the label.
C24_NoWhitespace ==
    upc \in {"normalized", "again"} =>
        \A i \in DOMAIN uout.value : ~IsSpace(uout.value[i])

----------------------------------------------------------------------------
(* Further properties of the importer, specification Spec *)

\* C25: every stored Stop row has stop_lat and stop_lon either both
\* present and non-zero, or both null.
C25_StopCoordinates ==
    \A r \in db["stops"] :
        \/ r.stop_lat = None /\ r.stop_lon = None
        \/ /\ r.stop_lat \notin {None, "0.0"}
           /\ r.stop_lon \notin {None, "0.0"}

----------------------------------------------------------------------------
(* Further properties of the arrival board, specification SpecArrivals *)

\* Twice the seconds from the reading cur of the clock to the HH:MM:00
\* that the prediction stands for (of tomorrow if that of today has
\* passed); the readings have whole or half seconds.
HalfSecondsUntil(text, cur) ==
    LET secs == IF PassedToday(text, cur)
                THEN 86400 + ClockSecs(text) - cur.s
                ELSE ClockSecs(text) - cur.s
    IN  2 * secs - (IF cur.us = 0 THEN 0 ELSE 1)

Abs(x) == IF x >= 0 THEN x ELSE 0 - x

\* C26: for a prediction HH:MM, time_left is the difference between the
\* arrival and now in minutes, rounded to the nearest integer, whatever
\* the seconds of now are.
C26_Rounded ==
    (apc = "enrich" /\ fetch = "ok") =>
        \A i \in 1..Len(page) :
            IsClockItem(page[i])
            => /\ HasArrival(i)
               /\ ArrivalOf(i).arrival_time = page[i].arrival_text
               /\ Abs(120 * ArrivalOf(i).time_left
                      - HalfSecondsUntil(page[i].arrival_text, ReadingOf(i)))
                  <= 60

\* C27: a prediction HH:MM of the current hour and minute, when the seconds
\* of now are above zero, is returned with time_left 0 and not as an
\* arrival of tomorrow with time_left 1439.
C27_CurrentMinute ==
    (apc = "enrich" /\ fetch = "ok") =>
        \A i \in 1..Len(page) :
            (/\ IsClockItem(page[i])
             /\ ReadingOf(i).s % 60 > 0
             /\ ClockSecs(page[i].arrival_text)
                   = ReadingOf(i).s - (ReadingOf(i).s % 60))
            => /\ HasArrival(i)
               /\ ArrivalOf(i).arrival_time = page[i].arrival_text
               /\ ArrivalOf(i).time_left = 0
               /\ ArrivalOf(i).time_left /= 1439

\* The rows the session has executed and no commit has made durable.
Pending == UNION {{<<t, r>> : r \in tx[t] \ db[t]} : t \in TableSet}

\* C28: in an import of several cities, what a failed city had executed
\* and not committed is never made durable by a later commit of the same
\* call: not by the first commit of the next city, not by the commit of
\* the index creation.
C28_NoLeak ==
    [][(/\ pc \in {"agency", "indexes"}
        /\ Len(ImportList(iarg)) > 1
        /\ \E c \in DOMAIN results : ~results[c].success)
       => \A p \in Pending : p[2] \notin db'[p[1]]]_vars

\* C30: the count a city's import returns for a table is the number of
\* rows parsed from the table's file, not the number of rows written: it
\* counts the stop rows skipped for a coordinate that is no number and the
\* rows that met an existing primary key and were left untouched.
C30_CountsParsed ==
    /\ \A c \in DOMAIN results :
           results[c].success =>
               \A t \in TableSet :
                   results[c].stats[t] = Len(RowsOf(archive[c], t))
    /\ pc \in TableSet =>
           \A t \in DOMAIN stats : stats[t] = Len(RowsOf(archive[City], t))

\* The second import of the same archive: three stops counted with two in
\* the store, three stop_times counted and none written.
C30_Witness ==
    /\ pc = "idle" /\ calls = 2 /\ Len(prev) = 2
    /\ \E c \in DOMAIN results :
        /\ archive[c] = "A" /\ results[c].success
        /\ \A d \in Cities \ {c} : archive[d] = Absent
        /\ results[c].stats["stops"] = 3
        /\ Cardinality(db["stops"]) = 2
        /\ results[c].stats["stop_times"] = 3
        /\ Cardinality(db["stop_times"]) = 3

----------------------------------------------------------------------------
(* Further properties of the sync, specification SpecSync *)

\* C29: in a sync of every city, each city in the import results was
\* downloaded with success by the same call; an archive that an earlier
\* call left on disk is not imported for a city whose download failed.
C29_ImportsDownloaded ==
    (spc = "idle" /\ sstatus = 200 /\ darg = None) =>
        \A c \in DOMAIN results :
            c \in DOMAIN dresults /\ dresults[c].success
====
